---- MODULE Spec2Model ----
(***************************************************************************)
(* Model & chain orchestration of obsidian-copilot (henryperkins fork).     *)
(*                                                                         *)
(* The repository carries TWO ChatModelManager classes (both in            *)
(* src/unnamed/part_002): lines 59-524 (synchronous setChatModel, static   *)
(* registry, with-CORS-first ping) and lines 556-927 (asynchronous         *)
(* setChatModel, no-CORS-first ping).  The variable `variant` says which   *)
(* of the two is linked into the running plugin; it is chosen in Init and  *)
(* never changes.                                                          *)
(*                                                                         *)
(* JavaScript objects are modelled as TLA+ records whose DOMAIN is the set *)
(* of defined properties: an undefined property is a missing field, and    *)
(* object spread {...a, ...b} is Merge(a, b).                              *)
(***************************************************************************)
EXTENDS Integers, Sequences, FiniteSets, Bags, TLC

VARIABLES
  variant,        \* which ChatModelManager class is linked: "sync" | "async"
  settings,       \* settingsAtom: the CopilotSettings snapshot
  userModelKey,   \* userModelKeyAtom ("" = null: fall back to defaultModelKey)
  modelMap,       \* ChatModelManager.modelMap: model key -> registry entry
  chatModel,      \* ChatModelManager.chatModel (NoModel = null)
  last,           \* history: the operation that produced this state
  cfgIn,          \* descriptor handed to the config builder
  cfgOut,         \* what the config builder returned or threw
  pingIn,         \* descriptor and network behaviour handed to ping
  pingOut,        \* what ping returned or threw, and what it did
  turn,           \* one getAIResponse call: position, stream, text, messages
  chain,          \* ChainManager.chain (NoChain = undefined)
  retrievalChain, \* ChainManager.retrievalChain (NoChain = undefined)
  userChainType,  \* userChainTypeAtom ("" = null: fall back to defaultChainType)
  pending,        \* bag of the setChain calls suspended in initializeQAChain
  run,            \* one runChain call: position, chain handed to the runner, messages
  memory          \* the conversation memory: the (input, output) exchanges saved

vars == <<variant, settings, userModelKey, modelMap, chatModel, last,
          cfgIn, cfgOut, pingIn, pingOut, turn,
          chain, retrievalChain, userChainType, pending, run, memory>>

mgrVars == <<settings, userModelKey, modelMap, chatModel, last>>
cfgVars == <<cfgIn, cfgOut>>
pingVars == <<pingIn, pingOut>>
chainVars == <<chain, retrievalChain, userChainType, pending, run>>

-----------------------------------------------------------------------------
(* Bounds of the model                                                     *)

\* longest fragment stream a turn receives
MaxFragments == 3
\* largest number of descriptors in settings.activeModels
MaxModels == 2

\* most setChain calls suspended at a time
MaxPending == 1

-----------------------------------------------------------------------------
(* JavaScript helpers                                                      *)

Variants == {"sync", "async"}

\* {...a, ...b}
Merge(a, b) ==
  [k \in DOMAIN a \cup DOMAIN b |-> IF k \in DOMAIN b THEN b[k] ELSE a[k]]

\* o.f for a string-valued optional property, undefined read as the falsy ""
Str(o, f) == IF f \in DOMAIN o THEN o[f] ELSE ""

\* a || b on strings
OrStr(a, b) == IF a # "" THEN a ELSE b

\* o.f ?? d
Nullish(o, f, d) == IF f \in DOMAIN o THEN o[f] ELSE d

\* truthiness of an optional boolean property
Truthy(o, f) == f \in DOMAIN o /\ o[f] = TRUE

Range(s) == {s[i] : i \in DOMAIN s}

\* Array.prototype.find: the first element satisfying Test, as a 0/1-element set
FindFirst(s, Test(_)) ==
  LET hits == {i \in DOMAIN s : Test(s[i])}
  IN  IF hits = {} THEN {}
      ELSE {s[CHOOSE i \in hits : \A j \in hits : i <= j]}

\* {}
EmptyObj == [k \in {} |-> ""]

Thrown(kind, msg) == [err |-> kind, message |-> msg]
IsThrown(r) == "err" \in DOMAIN r

-----------------------------------------------------------------------------
(* Providers, keys, descriptors                                            *)

OPENAI == "openai"
AZURE_OPENAI == "azure openai"
ANTHROPIC == "anthropic"
OLLAMA == "ollama"

\* Object.values(ChatModelProviders), restricted to the providers modelled
ChatModelProviders == {OPENAI, AZURE_OPENAI, ANTHROPIC, OLLAMA}

\* `${model.name}|${model.provider}`
ModelKeyOf(model) == <<model.name, model.provider>>

\* getModelKeyFromModel of settings/model (async class)
getModelKeyFromModel(model) == ModelKeyOf(model)

NoKey == <<"", "">>

\* ChatModelManager.chatModel = null
NoModel == [key |-> NoKey, modelName |-> "", streaming |-> FALSE]

\* getDecryptedKey: stored secrets carry the prefix "enc_" when encrypted
getDecryptedKey(k) ==
  CASE k = "enc_k1" -> "k1"
    [] k = "enc_k2" -> "k2"
    [] k = "enc_g"  -> "g"
    [] OTHER -> k

\* providerApiKeyMap[provider]()
providerApiKey(s, provider) ==
  CASE provider = OPENAI -> s.openAIApiKey
    [] provider = AZURE_OPENAI -> s.azureOpenAIApiKey
    [] provider = ANTHROPIC -> s.anthropicApiKey
    [] OTHER -> "default-key"

\* modelName.includes("azure-openai/models/o1-preview")
O1PathNames == {"azure-openai/models/o1-preview", "eastus/azure-openai/models/o1-preview"}
isO1PreviewModel(modelName) == modelName \in O1PathNames

\* the test each class uses to recognise the reasoning-only variant
IsReasoning(v, model) ==
  IF v = "sync" THEN model.name = "o1-preview" ELSE isO1PreviewModel(model.modelName)

\* getModelKey(): the user's selection, else settings.defaultModelKey
getModelKey(s, umk) == IF umk # NoKey THEN umk ELSE s.defaultModelKey

-----------------------------------------------------------------------------
(* ProviderConfigBuilder, synchronous class                                *)

handleAzureOpenAIExtraArgs(isO1, maxTokens, temperature) ==
  IF isO1
    THEN [maxCompletionTokens |-> maxTokens, temperature |-> 1]
    ELSE [maxTokens |-> maxTokens, temperature |-> temperature]

CorsField(model) ==
  IF "enableCors" \in DOMAIN model THEN [enableCors |-> model.enableCors]
  ELSE EmptyObj

getModelConfigSync(s, mk, model) ==
  LET isO1 == model.name = "o1-preview"
      mc(f) == IF mk \in DOMAIN s.modelConfigs THEN Str(s.modelConfigs[mk], f) ELSE ""
      baseConfig ==
        Merge([modelName |-> model.name,
               temperature |-> s.temperature,
               streaming |-> TRUE,
               maxRetries |-> 3,
               maxConcurrency |-> 3,
               azureOpenAIApiDeploymentName |-> mc("azureOpenAIApiDeploymentName"),
               azureOpenAIApiInstanceName |-> mc("azureOpenAIApiInstanceName"),
               azureOpenAIApiVersion |-> mc("azureOpenAIApiVersion")],
              CorsField(model))
      extra == handleAzureOpenAIExtraArgs(isO1, s.maxTokens, s.temperature)
      providerConfig ==
        CASE model.provider = OPENAI ->
               Merge([modelName |-> model.name,
                      openAIApiKey |-> getDecryptedKey(OrStr(model.apiKey, s.openAIApiKey)),
                      fetchCors |-> Truthy(model, "enableCors")], extra)
          [] model.provider = ANTHROPIC ->
               [anthropicApiKey |-> getDecryptedKey(OrStr(model.apiKey, s.anthropicApiKey)),
                modelName |-> model.name,
                fetchCors |-> Truthy(model, "enableCors")]
          [] model.provider = AZURE_OPENAI ->
               Merge([azureOpenAIApiKey |->
                        getDecryptedKey(OrStr(model.apiKey, s.azureOpenAIApiKey)),
                      azureOpenAIApiInstanceName |-> Str(model, "azureOpenAIApiInstanceName"),
                      azureOpenAIApiDeploymentName |-> mc("azureOpenAIApiDeploymentName"),
                      azureOpenAIApiVersion |-> s.azureOpenAIApiVersion,
                      fetchCors |-> Truthy(model, "enableCors")], extra)
          [] model.provider = OLLAMA ->
               [model |-> model.name, apiKey |-> OrStr(model.apiKey, "default-key")]
          [] OTHER -> EmptyObj
  IN  IF s.maxTokens <= 0
        THEN Thrown("Error", "Invalid maxTokens value in settings")
      ELSE IF s.temperature < 0 \/ s.temperature > 2
        THEN Thrown("Error", "Invalid temperature value in settings")
      ELSE Merge(baseConfig, providerConfig)

getAzureModelConfig(s, mk, model) ==
  LET isO1 == model.name = "o1-preview"
      found == FindFirst(s.azureOpenAIApiDeployments, LAMBDA d : d.modelKey = mk)
  IN  IF found = {} THEN Thrown("Error", "No Azure deployment found for model")
      ELSE
        LET deployment == CHOOSE d \in found : TRUE
            baseConfig ==
              Merge([modelName |-> model.name,
                     temperature |-> s.temperature,
                     streaming |-> TRUE,
                     maxRetries |-> 3,
                     maxConcurrency |-> 3,
                     azureOpenAIApiDeploymentName |-> deployment.deploymentName,
                     azureOpenAIApiInstanceName |-> deployment.instanceName,
                     azureOpenAIApiVersion |-> deployment.apiVersion],
                    CorsField(model))
            azureConfig ==
              Merge(baseConfig,
                    [azureOpenAIApiKey |-> getDecryptedKey(deployment.apiKey),
                     azureOpenAIApiInstanceName |-> deployment.instanceName,
                     azureOpenAIApiDeploymentName |-> deployment.deploymentName,
                     azureOpenAIApiVersion |-> deployment.apiVersion,
                     fetchCors |-> Truthy(model, "enableCors")])
        IN  IF isO1
              THEN Merge(azureConfig, [temperature |-> 1, streaming |-> FALSE])
              ELSE azureConfig

\* setChatModel / tryPing of the synchronous class: Azure goes to getAzureModelConfig
BuildSync(s, mk, model) ==
  IF model.provider = AZURE_OPENAI
    THEN getAzureModelConfig(s, mk, model)
    ELSE getModelConfigSync(s, mk, model)

-----------------------------------------------------------------------------
(* ProviderConfigBuilder, asynchronous class                               *)

\* validateO1PreviewModel: "ok", or the error it throws
validateO1PreviewModel(s, customModel) ==
  IF customModel.provider # AZURE_OPENAI \/ ~isO1PreviewModel(customModel.modelName)
    THEN [ok |-> TRUE]
  ELSE
    LET apiKey == OrStr(customModel.apiKey, s.azureOpenAIApiKey)
        instanceName ==
          OrStr(Str(customModel, "azureOpenAIApiInstanceName"), s.azureOpenAIApiInstanceName)
        deploymentName ==
          OrStr(Str(customModel, "azureOpenAIApiDeploymentName"),
                s.azureOpenAIApiDeploymentName)
        apiVersion ==
          OrStr(Str(customModel, "azureOpenAIApiVersion"), s.azureOpenAIApiVersion)
    IN  IF apiKey = "" \/ instanceName = "" \/ deploymentName = "" \/ apiVersion = ""
          THEN Thrown("Error", "Azure OpenAI API key, instance name, deployment name, and API version are required")
          ELSE [ok |-> TRUE, azureOpenAIApiVersion |-> apiVersion]

getModelConfigAsync(s, customModel) ==
  LET isO1Preview == isO1PreviewModel(customModel.modelName)
      pre == IF isO1Preview /\ customModel.provider = AZURE_OPENAI
               THEN validateO1PreviewModel(s, customModel)
               ELSE [ok |-> TRUE]
      \* validateO1PreviewModel writes the api version back into the descriptor
      cm == IF "azureOpenAIApiVersion" \in DOMAIN pre
              THEN Merge(customModel, [azureOpenAIApiVersion |-> pre.azureOpenAIApiVersion])
              ELSE customModel
      baseConfig ==
        Merge([modelName |-> cm.modelName,
               temperature |-> IF isO1Preview THEN 1
                               ELSE Nullish(cm, "temperature", s.temperature),
               stream |-> IF isO1Preview THEN FALSE
                          ELSE Nullish(cm, "stream", s.stream),
               maxRetries |-> 3,
               maxConcurrency |-> 3],
              IF isO1Preview THEN [maxCompletionTokens |-> s.maxTokens]
              ELSE EmptyObj)
      providerConfig ==
        CASE cm.provider = OPENAI ->
               [openAIApiKey |-> getDecryptedKey(OrStr(cm.apiKey, s.openAIApiKey)),
                fetchCors |-> Truthy(cm, "enableCors")]
          [] cm.provider = AZURE_OPENAI ->
               [azureOpenAIApiKey |-> getDecryptedKey(OrStr(cm.apiKey, s.azureOpenAIApiKey)),
                azureOpenAIApiInstanceName |->
                  OrStr(Str(cm, "azureOpenAIApiInstanceName"), s.azureOpenAIApiInstanceName),
                azureOpenAIApiDeploymentName |->
                  OrStr(Str(cm, "azureOpenAIApiDeploymentName"),
                        s.azureOpenAIApiDeploymentName),
                azureOpenAIApiVersion |->
                  OrStr(Str(cm, "azureOpenAIApiVersion"), s.azureOpenAIApiVersion),
                fetchCors |-> Truthy(cm, "enableCors"),
                streaming |-> FALSE]
          [] cm.provider = ANTHROPIC ->
               [anthropicApiKey |-> getDecryptedKey(OrStr(cm.apiKey, s.anthropicApiKey)),
                modelName |-> cm.modelName,
                fetchCors |-> Truthy(cm, "enableCors"),
                streaming |-> Nullish(cm, "stream", TRUE)]
          [] cm.provider = OLLAMA ->
               [model |-> cm.modelName,
                apiKey |-> OrStr(cm.apiKey, "default-key"),
                streaming |-> Nullish(cm, "stream", TRUE)]
          [] OTHER -> EmptyObj
  IN  IF IsThrown(pre) THEN pre ELSE Merge(baseConfig, providerConfig)

\* the configuration the class `v` builds for a descriptor
BuildModelConfig(v, s, mk, model) ==
  IF v = "sync" THEN BuildSync(s, mk, model) ELSE getModelConfigAsync(s, model)

\* the streaming flag the provider constructor receives:
\* sync passes {...modelConfig}; async passes {...configWithoutStream, streaming: stream}
CtorStreaming(v, cfg) == IF v = "sync" THEN cfg.streaming ELSE cfg.stream

-----------------------------------------------------------------------------
(* ModelValidator: ping                                                    *)

\* CHAT_PROVIDER_CONSTRUCTORS[model.provider] exists
HasConstructor(model) == model.provider \in ChatModelProviders

\* testModel.invoke(...): the request goes through safeFetch exactly when the
\* built configuration carries it; net gives the outcome of either transport
Invoke(cfg, net) == IF Truthy(cfg, "fetchCors") THEN net.cors ELSE net.noCors

\* err2String of utils: the text of an error, its message first
err2String(e) == e.message \o "\n"

NoError == Thrown("", "")

\* the outcome of one attempt: whether it returned, the error it threw, and
\* whether the request was sent
Attempt(thrown, invoked) ==
  [ok |-> ~IsThrown(thrown), error |-> IF IsThrown(thrown) THEN thrown ELSE NoError,
   invoked |-> invoked]

Invoked(outcome) ==
  Attempt(IF outcome = "ok" THEN EmptyObj ELSE Thrown("Error", outcome), TRUE)

\* one attempt of the asynchronous class
tryPingAsync(s, model, enableCors, net) ==
  LET modelToTest == Merge(model, [enableCors |-> enableCors])
      isO1Preview == isO1PreviewModel(modelToTest.modelName)
  IN  IF modelToTest.provider = AZURE_OPENAI /\ isO1Preview
        THEN Attempt(EmptyObj, FALSE)
      ELSE
        LET modelConfig == getModelConfigAsync(s, modelToTest)
        IN  IF IsThrown(modelConfig) THEN Attempt(modelConfig, FALSE)
            ELSE IF ~HasConstructor(modelToTest)
              THEN Attempt(Thrown("Error", "Unknown provider"), FALSE)
            ELSE Invoked(Invoke(modelConfig, net))

\* ping of the asynchronous class: first without CORS, then with CORS
pingAsync(s, model, net) ==
  LET first == tryPingAsync(s, model, FALSE, net)
      second == tryPingAsync(s, model, TRUE, net)
  IN  IF first.ok
        THEN [ret |-> "true", notice |-> FALSE, message |-> <<>>,
              attempts |-> <<FALSE>>]
      ELSE IF second.ok
        THEN [ret |-> "true", notice |-> TRUE, message |-> <<>>,
              attempts |-> <<FALSE, TRUE>>]
      ELSE [ret |-> "throw", notice |-> FALSE,
            message |-> <<"\nwithout CORS Error: ", err2String(first.error),
                          "\nwith CORS Error: ", err2String(second.error)>>,
            attempts |-> <<FALSE, TRUE>>]

\* one attempt of the synchronous class
tryPingSync(s, mk, model, enableCors, net) ==
  LET modelToTest == Merge(model, [enableCors |-> enableCors])
      modelConfig == BuildSync(s, mk, modelToTest)
  IN  IF IsThrown(modelConfig) THEN Attempt(modelConfig, FALSE)
      ELSE IF ~HasConstructor(model)
        THEN Attempt(Thrown("Error", "Unknown provider"), FALSE)
      ELSE Invoked(Invoke(modelConfig, net))

\* ping of the synchronous class: first with the descriptor's own flag
\* (CORS when unset), then without CORS only when the flag was set; the errors
\* are logged and the caller gets a boolean
pingSync(s, mk, model, net) ==
  LET firstCors == Nullish(model, "enableCors", TRUE)
      first == tryPingSync(s, mk, model, firstCors, net)
      second == tryPingSync(s, mk, model, FALSE, net)
  IN  IF first.ok
        THEN [ret |-> "true", notice |-> FALSE, message |-> <<>>,
              attempts |-> <<firstCors>>]
      ELSE IF Truthy(model, "enableCors")
        THEN [ret |-> IF second.ok THEN "true" ELSE "false",
              notice |-> FALSE, message |-> <<>>,
              attempts |-> <<firstCors, FALSE>>]
      ELSE [ret |-> "false", notice |-> FALSE, message |-> <<>>,
            attempts |-> <<firstCors>>]

Ping(v, s, mk, model, net) ==
  IF v = "sync" THEN pingSync(s, mk, model, net) ELSE pingAsync(s, model, net)

-----------------------------------------------------------------------------
(* Descriptors and settings used as inputs                                 *)

Descriptor(name, modelName, provider) ==
  [name |-> name, modelName |-> modelName, provider |-> provider,
   enabled |-> TRUE, apiKey |-> ""]

GPT == Descriptor("gpt-4o", "gpt-4o", OPENAI)
AZ1 == Descriptor("azure-gpt", "gpt-4", AZURE_OPENAI)
AZO1 == Descriptor("o1-preview", "azure-openai/models/o1-preview", AZURE_OPENAI)
O1OPENAI == Descriptor("o1-preview", "eastus/azure-openai/models/o1-preview", OPENAI)
O1CLAUDE == Descriptor("o1-preview", "azure-openai/models/o1-preview", ANTHROPIC)
LLAMA == Descriptor("llama3", "llama3", OLLAMA)
MYSTERY == Descriptor("mystery", "mystery", "mystery-ai")

EMB == Descriptor("text-embedding-3-small", "text-embedding-3-small", OPENAI)
EMB_LOCAL == Descriptor("nomic-embed-text", "nomic-embed-text", OLLAMA)

\* BUILTIN_CHAT_MODELS of constants
BUILTIN_CHAT_MODELS == <<GPT>>

\* BUILTIN_EMBEDDING_MODELS of constants
BUILTIN_EMBEDDING_MODELS == <<EMB>>

Deployment(model, tag, apiKey) ==
  [modelKey |-> ModelKeyOf(model), deploymentName |-> "dep-" \o tag,
   instanceName |-> "inst-" \o tag, apiVersion |-> "ver-" \o tag, apiKey |-> apiKey,
   modelFamily |-> ""]

D_AZ1 == Deployment(AZ1, "1", "enc_k1")
D_AZO1 == Deployment(AZO1, "2", "k2")

\* ChainType of chainFactory
LLM_CHAIN == "llm_chain"
VAULT_QA_CHAIN == "vault_qa"
COPILOT_PLUS_CHAIN == "copilot_plus"

BaseSettings ==
  [activeModels |-> <<GPT>>,
   activeEmbeddingModels |-> <<EMB>>,
   defaultChainType |-> LLM_CHAIN,
   azureOpenAIApiDeployments |-> <<>>,
   modelConfigs |-> EmptyObj,
   openAIApiKey |-> "enc_g",
   anthropicApiKey |-> "enc_g",
   azureOpenAIApiKey |-> "g",
   azureOpenAIApiInstanceName |-> "inst-g",
   azureOpenAIApiDeploymentName |-> "dep-g",
   azureOpenAIApiVersion |-> "ver-g",
   temperature |-> 0,
   maxTokens |-> 1000,
   stream |-> TRUE,
   defaultModelKey |-> ModelKeyOf(GPT)]

NoLast == [op |-> "init"]
IdleCfg == [state |-> "idle", via |-> "none", result |-> EmptyObj]
IdlePing == [state |-> "idle", result |-> EmptyObj]
IdleTurn ==
  [pc |-> "idle", path |-> "none", streaming |-> FALSE, delivered |-> <<>>,
   text |-> <<>>, aborted |-> FALSE, abortAt |-> -1, checks |-> 0, consumed |-> 0,
   partials |-> <<>>, messages |-> <<>>]

\* no chain object (undefined)
NoChain == [kind |-> "none", llm |-> NoModel, prompt |-> "none"]

IdleRun ==
  [pc |-> "idle", ignoreSystemMessage |-> FALSE, isO1 |-> FALSE, hadModel |-> FALSE,
   substituted |-> FALSE, selects |-> 0, runnerStarted |-> FALSE, chainUsed |-> NoChain,
   error |-> "", rejection |-> "",
   result |-> <<>>, messages |-> <<>>, partials |-> 0, afterSubstitution |-> FALSE]

\* the chain manager is not part of the state
ChainIdle ==
  /\ chain = NoChain
  /\ retrievalChain = NoChain
  /\ userChainType = ""
  /\ pending = EmptyBag
  /\ run = IdleRun

-----------------------------------------------------------------------------
(* Settings store (settings/model)                                         *)

IndexOfKey(seq, key) ==
  LET hits == {i \in DOMAIN seq : ModelKeyOf(seq[i]) = key}
  IN  IF hits = {} THEN 0 ELSE CHOOSE i \in hits : \A j \in hits : i <= j

\* a Map that keeps every value it was handed
MapSet_Appending(seq, key, val) == Append(seq, val)

\* Map.prototype.set on a Map kept as the sequence of its values in insertion order
MapSet(seq, key, val) ==
  IF IndexOfKey(seq, key) = 0 THEN Append(seq, val)
  ELSE [seq EXCEPT ![IndexOfKey(seq, key)] = val]

RECURSIVE MergeExisting(_, _, _, _)
MergeExisting(existing, builtIn, modelConfigs, acc) ==
  IF existing = <<>> THEN acc
  ELSE
    LET model == Head(existing)
        key == ModelKeyOf(model)
        b == FindFirst(builtIn, LAMBDA m : ModelKeyOf(m) = key)
        base == IF b = {} THEN EmptyObj ELSE CHOOSE m \in b : TRUE
        cfg == IF key \in DOMAIN modelConfigs THEN modelConfigs[key] ELSE EmptyObj
    IN  MergeExisting(Tail(existing), builtIn, modelConfigs,
                      MapSet(acc, key, Merge(Merge(base, model), cfg)))

\* a merge that leaves the list as it was written
MergeBuiltIn_Skipping(builtIn, acc) == acc

RECURSIVE MergeBuiltIn(_, _)
MergeBuiltIn(builtIn, acc) ==
  IF builtIn = <<>> THEN acc
  ELSE
    LET model == Head(builtIn)
    IN  MergeBuiltIn(Tail(builtIn),
                     IF IndexOfKey(acc, ModelKeyOf(model)) # 0 THEN acc
                     ELSE Append(acc, Merge(model, [core |-> TRUE])))

mergeActiveModels(existingActiveModels, builtInModels, modelConfigs) ==
  MergeBuiltIn(builtInModels,
               MergeExisting(existingActiveModels, builtInModels, modelConfigs, <<>>))

mergeAllActiveModelsWithCoreModels(s) ==
  [s EXCEPT !.activeModels =
     mergeActiveModels(s.activeModels, BUILTIN_CHAT_MODELS, s.modelConfigs),
            !.activeEmbeddingModels =
     mergeActiveModels(s.activeEmbeddingModels, BUILTIN_EMBEDDING_MODELS,
                       s.modelConfigs)]

\* setSettings(partial): the snapshot that replaces settingsAtom
setSettings(s, partial) == mergeAllActiveModelsWithCoreModels(Merge(s, partial))

\* isAzureDeployment(value): every field of a deployment is a string
isAzureDeployment(value) ==
  {"modelKey", "modelFamily", "deploymentName", "instanceName", "apiVersion", "apiKey"}
    \subseteq DOMAIN value

\* updateSetting(key, value): the snapshot after the call
updateSetting(s, key, value) ==
  IF key = "azureOpenAIApiDeployments"
    THEN IF \A i \in DOMAIN value : isAzureDeployment(value[i])
           THEN setSettings(s, Merge(s, [azureOpenAIApiDeployments |-> value]))
           \* "Invalid Azure deployment configuration": nothing is written
           ELSE s
  ELSE IF key \in {"modelConfigs", "enabledCommands"}
    THEN setSettings(s, Merge(s, [k \in {key} |-> Merge(s[key], value)]))
  ELSE setSettings(s, Merge(s, [k \in {key} |-> value]))

\* map((model) => ({...model, enabled: true}))
RECURSIVE AllEnabled(_)
AllEnabled(models) ==
  IF models = <<>> THEN <<>>
  ELSE <<Merge(Head(models), [enabled |-> TRUE])>> \o AllEnabled(Tail(models))

\* resetSettings(): the snapshot after the call
resetSettings(s) ==
  setSettings(s, Merge(BaseSettings,
                       [activeModels |-> AllEnabled(BUILTIN_CHAT_MODELS),
                        activeEmbeddingModels |-> AllEnabled(BUILTIN_EMBEDDING_MODELS)]))

-----------------------------------------------------------------------------
(* ChatModelRegistry: buildModelMap                                        *)

\* a registry that also lists disabled descriptors
AddsEntry_Disabled(model) == model.provider \in ChatModelProviders

\* the forEach body of buildModelMap adds an entry for this descriptor
AddsEntry(model) == model.enabled /\ model.provider \in ChatModelProviders

RegistryEntry(s, model) ==
  LET apiKey == OrStr(model.apiKey, providerApiKey(s, model.provider))
  IN  [hasApiKey |-> OrStr(model.apiKey, apiKey) # "", vendor |-> model.provider]

\* the entries the forEach of buildModelMap writes, in order
EntriesOf(s) ==
  LET all == s.activeModels
      idx == {i \in DOMAIN all : AddsEntry(all[i])}
      keys == {ModelKeyOf(all[i]) : i \in idx}
      lastOf(k) == CHOOSE i \in idx :
                     /\ ModelKeyOf(all[i]) = k
                     /\ \A j \in idx : ModelKeyOf(all[j]) = k => j <= i
  IN  [k \in keys |-> RegistryEntry(s, all[lastOf(k)])]

\* a rebuild that writes into the registry it found
buildModelMap_Merged(s, old) == Merge(old, EntriesOf(s))

\* this.modelMap = {}; then the forEach
\* (param old: the registry before the call, which the code discards)
buildModelMap(s, old) == EntriesOf(s)

\* a check that clears nothing
validateCurrentModel_Keeping(mm, cm, currentModelKey) == cm

\* validateCurrentModel: the chat model after the check
validateCurrentModel(mm, cm, currentModelKey) ==
  IF cm = NoModel THEN cm
  ELSE IF currentModelKey = NoKey THEN cm
  ELSE IF currentModelKey \notin DOMAIN mm \/ ~mm[currentModelKey].hasApiKey
    THEN NoModel
  ELSE cm

-----------------------------------------------------------------------------
(* ActiveModelController: setChatModel                                     *)

\* modelMap.hasOwnProperty(modelKey)
InRegistry(mm, modelKey) == modelKey \in DOMAIN mm

\* an activation that does not look at the credentials
HasApiKey_Unchecked(mm, modelKey) == TRUE

\* selectedModel.hasApiKey
HasApiKey(mm, modelKey) == mm[modelKey].hasApiKey

\* the instance the provider constructor returns
NewInstance(v, modelKey, cfg) ==
  [key |-> modelKey,
   modelName |-> IF "modelName" \in DOMAIN cfg THEN cfg.modelName ELSE cfg.model,
   streaming |-> CtorStreaming(v, cfg)]

Failed(cm, umk, s, outcome, built, attempts, ctor) ==
  [chatModel |-> cm, userModelKey |-> umk, settings |-> s, outcome |-> outcome,
   threw |-> TRUE, built |-> built, attempts |-> attempts, ctorCalled |-> ctor]

\* the "Missing required field" loop of the synchronous setChatModel
MissingAzureField(model, cfg) ==
  /\ model.provider = AZURE_OPENAI
  /\ \E f \in {"azureOpenAIApiKey", "azureOpenAIApiInstanceName",
               "azureOpenAIApiDeploymentName", "azureOpenAIApiVersion"} : Str(cfg, f) = ""

\* setChatModel(model) of the synchronous class; env.ctor says whether the
\* provider constructor throws
setChatModelSync(s, umk, mm, cm, model, env) ==
  LET modelKey == ModelKeyOf(model)
      modelConfig == BuildSync(s, getModelKey(s, umk), model)
  IN  IF ~InRegistry(mm, modelKey) THEN Failed(cm, umk, s, "noModel", FALSE, 0, FALSE)
      ELSE IF ~HasApiKey(mm, modelKey) THEN Failed(cm, umk, s, "noApiKey", FALSE, 0, FALSE)
      ELSE IF IsThrown(modelConfig) THEN Failed(cm, umk, s, "configErr", TRUE, 0, FALSE)
      ELSE IF MissingAzureField(model, modelConfig)
        THEN Failed(cm, umk, s, "missingField", TRUE, 0, FALSE)
      ELSE IF env.ctor = "throws"
        \* catch: console.error, Notice; nothing is rethrown
        THEN [chatModel |-> cm, userModelKey |-> modelKey, settings |-> s,
              outcome |-> "ctorErr", threw |-> FALSE, built |-> TRUE,
              attempts |-> 0, ctorCalled |-> TRUE]
      ELSE [chatModel |-> NewInstance("sync", modelKey, modelConfig),
            userModelKey |-> modelKey, settings |-> s,
            outcome |-> "ok", threw |-> FALSE, built |-> TRUE,
            attempts |-> 0, ctorCalled |-> TRUE]

\* the descriptor object after getModelConfig ran validateO1PreviewModel on it
Validated(s, model) ==
  LET pre == validateO1PreviewModel(s, model)
  IN  IF "azureOpenAIApiVersion" \in DOMAIN pre
        THEN Merge(model, [azureOpenAIApiVersion |-> pre.azureOpenAIApiVersion])
        ELSE model

\* settings with the descriptor object at position i replaced (in-place mutation
\* of an element of settings.activeModels: no notification)
WithModel(s, i, model) == [s EXCEPT !.activeModels[i] = model]

\* an activation that pings every model
PingsFirst_Always(isO1) == TRUE

\* if (!isO1Preview) { await this.ping(model) }
PingsFirst(isO1) == ~isO1

\* setChatModel(model) of the asynchronous class, model being activeModels[i]
setChatModelAsync(s, umk, mm, cm, i, env) ==
  LET model == s.activeModels[i]
      modelKey == getModelKeyFromModel(model)
      modelConfig == getModelConfigAsync(s, model)
      s2 == WithModel(s, i, Validated(s, model))
      isO1Preview == isO1PreviewModel(model.modelName)
      pinged == pingAsync(s2, s2.activeModels[i], env.net)
      none == NoModel
  IN  IF ~InRegistry(mm, modelKey) THEN Failed(cm, umk, s, "noModel", FALSE, 0, FALSE)
      ELSE IF ~HasApiKey(mm, modelKey) THEN Failed(cm, umk, s, "noApiKey", FALSE, 0, FALSE)
      ELSE IF IsThrown(modelConfig) THEN Failed(cm, umk, s, "configErr", TRUE, 0, FALSE)
      ELSE IF PingsFirst(isO1Preview) /\ pinged.ret = "throw"
        \* catch: this.chatModel = null; throw new Error(...)
        THEN Failed(none, umk, s2, "pingErr", TRUE, Len(pinged.attempts), FALSE)
      ELSE
        LET n == IF PingsFirst(isO1Preview) THEN Len(pinged.attempts) ELSE 0
        IN  IF env.ctor = "throws"
              \* catch: this.chatModel = null; throw error
              THEN Failed(none, modelKey, s2, "ctorErr", TRUE, n, TRUE)
              ELSE [chatModel |-> NewInstance("async", modelKey, modelConfig),
                    userModelKey |-> modelKey, settings |-> s2,
                    outcome |-> "ok", threw |-> FALSE, built |-> TRUE,
                    attempts |-> n, ctorCalled |-> TRUE]

\* createChainWithNewModel: the Azure deployment saved for newModelKey is copied
\* into the descriptor before it is activated
applyAzureDeployment(s, newModelKey, customModel) ==
  LET found == FindFirst(s.azureOpenAIApiDeployments, LAMBDA d : d.modelKey = newModelKey)
  IN  IF customModel.provider = AZURE_OPENAI /\ found # {}
        THEN LET deployment == CHOOSE d \in found : TRUE
             IN  Merge(customModel,
                       [apiKey |-> deployment.apiKey,
                        azureOpenAIApiInstanceName |-> deployment.instanceName,
                        azureOpenAIApiDeploymentName |-> deployment.deploymentName,
                        azureOpenAIApiVersion |-> deployment.apiVersion])
        ELSE customModel

setChatModel(v, s, umk, mm, cm, i, env) ==
  IF v = "sync" THEN setChatModelSync(s, umk, mm, cm, s.activeModels[i], env)
  ELSE setChatModelAsync(s, umk, mm, cm, i, env)

-----------------------------------------------------------------------------
(* Spec: the settings store, the registry and the active model             *)

DeploymentLists == {<<>>, <<D_AZ1>>, <<D_AZO1>>, <<D_AZ1, D_AZO1>>}

\* what the environment does to one activation: the two transports and the
\* provider constructor
Envs == [net : [noCors : {"ok", "E-nocors"}, cors : {"ok", "E-cors"}],
         ctor : {"ok", "throws"}]

Init ==
  /\ variant \in Variants
  /\ settings = setSettings(BaseSettings, [activeModels |-> <<GPT, AZ1>>])
  /\ userModelKey = NoKey
  /\ modelMap = buildModelMap(settings, EmptyObj)
  /\ chatModel = NoModel
  /\ last = NoLast
  /\ cfgIn = EmptyObj
  /\ cfgOut = IdleCfg
  /\ pingIn = EmptyObj
  /\ pingOut = IdlePing
  /\ turn = IdleTurn
  /\ memory = <<>>
  /\ ChainIdle

\* a settings write followed by ChatModelManager's settings subscription:
\* buildModelMap(); validateCurrentModel()
SettingsNotified(partial) ==
  /\ settings' = setSettings(settings, partial)
  /\ modelMap' = buildModelMap(settings', modelMap)
  /\ chatModel' = validateCurrentModel(modelMap', chatModel,
                                       getModelKey(settings', userModelKey))
  /\ UNCHANGED <<variant, memory, userModelKey, cfgVars, pingVars, turn, chainVars>>

SettingsChanged(partial, op) ==
  /\ SettingsNotified(partial)
  /\ last' = [op |-> op, dropped |-> ~(DOMAIN modelMap \subseteq DOMAIN modelMap')]

\* setSettings({activeModels}): the model table is saved with some rows of the
\* pool, each enabled or not
RECURSIVE ListsOver(_)
ListsOver(order) ==
  IF order = <<>> THEN {<<>>}
  ELSE LET rest == ListsOver(Tail(order))
       IN  rest \cup {<<[Head(order) EXCEPT !.enabled = e]>> \o r :
                        e \in BOOLEAN, r \in rest}

ModelLists == {l \in ListsOver(<<GPT, AZ1, AZO1, MYSTERY>>) : Len(l) <= MaxModels}

SetActiveModels ==
  \E list \in ModelLists :
    /\ list # settings.activeModels
    /\ SettingsChanged([activeModels |-> list], "setActiveModels")

\* the OpenAI API key field of the settings form
SetProviderKey ==
  \E k \in {"", "enc_g"} :
    /\ k # settings.openAIApiKey
    /\ SettingsChanged([openAIApiKey |-> k], "setProviderKey")

\* updateSetting("azureOpenAIApiDeployments", deployments)
SaveDeployments ==
  \E deps \in DeploymentLists :
    /\ deps # settings.azureOpenAIApiDeployments
    /\ SettingsChanged([azureOpenAIApiDeployments |-> deps], "saveDeployments")

\* chatModelManager.setChatModel(settings.activeModels[i])
SetChatModel ==
  \E i \in DOMAIN settings.activeModels, env \in Envs :
    \E r \in {setChatModel(variant, settings, userModelKey, modelMap, chatModel, i, env)} :
      /\ settings' = r.settings
      /\ userModelKey' = r.userModelKey
      /\ chatModel' = r.chatModel
      /\ last' = [op |-> "setChatModel",
                  model |-> settings.activeModels[i],
                  outcome |-> r.outcome,
                  threw |-> r.threw,
                  built |-> r.built,
                  attempts |-> r.attempts,
                  ctorCalled |-> r.ctorCalled,
                  ctorThrew |-> r.ctorCalled /\ env.ctor = "throws",
                  hadModel |-> chatModel # NoModel,
                  modelKept |-> r.chatModel = chatModel,
                  keyKept |-> getModelKey(r.settings, r.userModelKey)
                                = getModelKey(settings, userModelKey)]
      /\ UNCHANGED <<variant, memory, modelMap, cfgVars, pingVars, turn, chainVars>>

\* the model picker: setModelKey(key)
SelectModel ==
  \E d \in {GPT, AZ1, AZO1, MYSTERY} :
    /\ userModelKey # ModelKeyOf(d)
    /\ userModelKey' = ModelKeyOf(d)
    /\ last' = [op |-> "selectModel"]
    /\ UNCHANGED <<variant, memory, settings, modelMap, chatModel, cfgVars, pingVars, turn, chainVars>>

Next ==
  \/ SetActiveModels
  \/ SetProviderKey
  \/ SaveDeployments
  \/ SelectModel
  \/ SetChatModel

Spec == Init /\ [][Next]_vars

-----------------------------------------------------------------------------
(* SpecConfig: the config builder applied to drawn inputs                  *)

CfgModels ==
  LET bases == {GPT, AZ1, AZO1, O1OPENAI, O1CLAUDE, LLAMA}
  IN  bases
      \cup {Merge(b, [stream |-> TRUE]) : b \in bases}
      \cup {Merge(b, [temperature |-> 2]) : b \in bases}
      \cup {Merge(b, [apiKey |-> "enc_k1", azureOpenAIApiInstanceName |-> "inst-m",
                      azureOpenAIApiDeploymentName |-> "dep-m",
                      azureOpenAIApiVersion |-> "ver-m"]) : b \in {AZ1, AZO1}}

CfgSettings ==
  {Merge(BaseSettings,
         [temperature |-> t, stream |-> st, azureOpenAIApiDeployments |-> deps,
          azureOpenAIApiDeploymentName |-> gd])
     : t \in {0, 2}, st \in BOOLEAN, gd \in {"", "dep-g"},
       deps \in {<<>>, <<D_AZ1>>, <<D_AZO1>>, <<D_AZ1, D_AZO1>>}}

InitConfig ==
  /\ variant \in Variants
  /\ settings \in CfgSettings
  /\ userModelKey \in {NoKey, ModelKeyOf(AZ1), ModelKeyOf(AZO1)}
  /\ cfgIn \in CfgModels
  /\ cfgOut = IdleCfg
  /\ modelMap = EmptyObj
  /\ chatModel = NoModel
  /\ last = NoLast
  /\ pingIn = EmptyObj
  /\ pingOut = IdlePing
  /\ turn = IdleTurn
  /\ memory = <<>>
  /\ ChainIdle

\* the builder is run for cfgIn under the current settings and selection, as
\* setChatModel(cfgIn) and ping(cfgIn) run it
BuildConfig ==
  /\ cfgOut.state = "idle"
  /\ cfgOut' = [state |-> "built", via |-> "direct",
                result |-> BuildModelConfig(variant, settings,
                                            getModelKey(settings, userModelKey), cfgIn)]
  /\ UNCHANGED <<variant, memory, mgrVars, cfgIn, pingVars, turn, chainVars>>

\* the builder is run as createChainWithNewModel reaches it: cfgIn is the
\* descriptor of the selected key and the deployment was copied into it first
BuildForSelected ==
  /\ cfgOut.state = "idle"
  /\ getModelKey(settings, userModelKey) = ModelKeyOf(cfgIn)
  /\ cfgOut' = [state |-> "built", via |-> "createChain",
                result |-> BuildModelConfig(variant, settings, ModelKeyOf(cfgIn),
                             applyAzureDeployment(settings, ModelKeyOf(cfgIn), cfgIn))]
  /\ UNCHANGED <<variant, memory, mgrVars, cfgIn, pingVars, turn, chainVars>>

NextConfig == BuildConfig \/ BuildForSelected

SpecConfig == InitConfig /\ [][NextConfig]_vars

-----------------------------------------------------------------------------
(* SpecPing: ping applied to drawn inputs                                  *)

PingModels ==
  LET bases == {GPT, AZ1, O1CLAUDE, LLAMA}
  IN  bases \cup {Merge(b, [enableCors |-> c]) : b \in bases, c \in BOOLEAN}

PingNets == [noCors : {"ok", "E-nocors"}, cors : {"ok", "E-cors"}]

InitPing ==
  /\ variant \in Variants
  /\ settings = Merge(BaseSettings, [azureOpenAIApiDeployments |-> <<D_AZ1>>])
  /\ userModelKey \in {NoKey, ModelKeyOf(AZ1)}
  /\ pingIn \in [model : PingModels, net : PingNets]
  /\ pingOut = IdlePing
  /\ modelMap = EmptyObj
  /\ chatModel = NoModel
  /\ last = NoLast
  /\ cfgIn = EmptyObj
  /\ cfgOut = IdleCfg
  /\ turn = IdleTurn
  /\ memory = <<>>
  /\ ChainIdle

DoPing ==
  /\ pingOut.state = "idle"
  /\ pingOut' = [state |-> "done",
                 result |-> Ping(variant, settings, getModelKey(settings, userModelKey),
                                 pingIn.model, pingIn.net)]
  /\ UNCHANGED <<variant, memory, mgrVars, cfgVars, pingIn, turn, chainVars>>

NextPing == DoPing

SpecPing == InitPing /\ [][NextPing]_vars

-----------------------------------------------------------------------------
(* TurnExecutor: getAIResponse (langchainStream)                           *)

\* what a stream can yield: a plain string, a message whose content is a string
\* (possibly empty), a message whose content is not a string
Chunks ==
  {[type |-> "string", content |-> <<"a">>, contentIsString |-> TRUE],
   [type |-> "message", content |-> <<"b">>, contentIsString |-> TRUE],
   [type |-> "message", content |-> <<>>, contentIsString |-> TRUE],
   [type |-> "message", content |-> <<"parts">>, contentIsString |-> FALSE]}

\* typeof content === "string"
IsText(chunk) == chunk.type = "string" \/ chunk.contentIsString

\* the text a fragment contributes
TextOf(chunk) == IF IsText(chunk) THEN chunk.content ELSE <<>>

\* a loop that ignores the cancellation flag
BreaksLoop_Never(aborted) == FALSE

\* if (abortController.signal.aborted) break;
BreaksLoop(aborted) == aborted

\* a loop that hands each fragment alone to the callback
Accumulate_Delta(fullAIResponse, content) == content

\* fullAIResponse += content
Accumulate(fullAIResponse, content) == fullAIResponse \o content

\* findCustomModel
findCustomModel(modelKey, models) == FindFirst(models, LAMBDA m : ModelKeyOf(m) = modelKey)

\* getChatModelConfiguration(modelKey): defined by the synchronous class only
getChatModelConfiguration(v, s, umk, modelKey) ==
  LET found == findCustomModel(modelKey, s.activeModels)
  IN  IF v = "async"
        THEN Thrown("TypeError", "getChatModelConfiguration is not a function")
      ELSE IF found = {} THEN Thrown("Error", "Model config not found for key")
      ELSE BuildSync(s, getModelKey(s, umk), CHOOSE m \in found : TRUE)

\* (chatModel as any).modelName || (chatModel as any).model || ""
IsO1Instance(cm) == cm.modelName = "o1-preview"

\* the catch block of getAIResponse: the text handed to addMessage
ErrorText(message, isO1) ==
  IF isO1 /\ message = "system message not supported"
    THEN <<"Error: ", "Error: ", "o1-preview models do not support system messages.">>
    ELSE <<"Error: ", "Model request failed: ", message>>

AiMessage(text, isError) ==
  [sender |-> "ai", message |-> text, isVisible |-> TRUE, isError |-> isError]

\* a stream path that reports its end as an error
FinalMessage_AsError(fullAIResponse) ==
  AiMessage(ErrorText("cancelled", FALSE), TRUE)

\* addMessage({sender: AI_SENDER, message: fullAIResponse, ...}) after the loop
FinalMessage(fullAIResponse) == AiMessage(fullAIResponse, FALSE)

\* catch (error) { ... addMessage(...) }
Caught(message) ==
  turn' = [turn EXCEPT !.pc = "done", !.path = "error",
             !.messages = Append(@, AiMessage(ErrorText(message, IsO1Instance(chatModel)),
                                              TRUE))]

TurnFrame == UNCHANGED <<variant, memory, mgrVars, cfgVars, pingVars, chainVars>>

\* getAIResponse up to its first await
TurnStart ==
  /\ turn.pc = "idle"
  /\ LET cfg == getChatModelConfiguration(variant, settings, userModelKey,
                                          getModelKey(settings, userModelKey))
     IN  IF chatModel = NoModel
           \* getChatModel() throws outside the try block
           THEN turn' = [turn EXCEPT !.pc = "rejected"]
         ELSE IF IsThrown(cfg) THEN Caught(cfg.message)
         ELSE turn' = [turn EXCEPT !.pc = "loadMemory", !.streaming = cfg.streaming]
  /\ TurnFrame

\* await memory.loadMemoryVariables(...)
MemoryLoaded ==
  /\ turn.pc = "loadMemory"
  /\ \/ Caught("memory unavailable")
     \/ turn' = [turn EXCEPT !.pc = IF turn.streaming /\ ~IsO1Instance(chatModel)
                                      THEN "openStream" ELSE "invoke"]
  /\ TurnFrame

\* await chain.stream(...)
StreamOpened ==
  /\ turn.pc = "openStream"
  /\ \/ Caught("stream refused")
     \/ turn' = [turn EXCEPT !.pc = "awaitChunk", !.path = "stream"]
  /\ TurnFrame

\* one iteration of the for-await loop: the stream yields a fragment
ChunkArrives ==
  /\ turn.pc = "awaitChunk"
  /\ Len(turn.delivered) < MaxFragments
  /\ \E chunk \in Chunks :
       LET t1 == [turn EXCEPT !.delivered = Append(@, chunk), !.checks = @ + 1]
       IN  IF BreaksLoop(turn.aborted)
             THEN turn' = [t1 EXCEPT !.pc = "done",
                                      !.messages = Append(@, FinalMessage(turn.text))]
           ELSE IF IsText(chunk)
             THEN turn' = [t1 EXCEPT !.consumed = @ + 1,
                                      !.text = Accumulate(turn.text, chunk.content),
                                      !.partials =
                                        Append(@, Accumulate(turn.text, chunk.content))]
           ELSE turn' = [t1 EXCEPT !.consumed = @ + 1]
  /\ TurnFrame

\* the stream is exhausted: addMessage(fullAIResponse)
StreamEnds ==
  /\ turn.pc = "awaitChunk"
  /\ turn' = [turn EXCEPT !.pc = "done",
                          !.messages = Append(@, FinalMessage(turn.text))]
  /\ TurnFrame

\* the stream throws while the loop awaits the next fragment
StreamFails ==
  /\ turn.pc = "awaitChunk"
  /\ Caught("connection lost")
  /\ TurnFrame

\* await chatModel.invoke(...)
InvokeReturns ==
  /\ turn.pc = "invoke"
  /\ \/ \E m \in {"connection lost", "system message not supported"} : Caught(m)
     \/ \E chunk \in {c \in Chunks : c.type = "message"} :
          turn' = [turn EXCEPT !.pc = "done", !.path = "invoke",
                     !.messages = Append(@, AiMessage(TextOf(chunk), FALSE))]
  /\ TurnFrame

\* the user presses stop while getAIResponse is suspended at an await
Abort ==
  /\ turn.pc \in {"loadMemory", "openStream", "awaitChunk", "invoke"}
  /\ ~turn.aborted
  /\ turn' = [turn EXCEPT !.aborted = TRUE, !.abortAt = turn.consumed]
  /\ TurnFrame

StreamModels == {NoModel, NewInstance("sync", ModelKeyOf(GPT), [modelName |-> "gpt-4o", streaming |-> TRUE]),
                 NewInstance("sync", ModelKeyOf(AZO1), [modelName |-> "o1-preview", streaming |-> FALSE])}

InitStream ==
  /\ variant \in Variants
  /\ settings = setSettings(BaseSettings, [activeModels |-> <<GPT, AZO1>>,
                                           azureOpenAIApiDeployments |-> <<D_AZO1>>])
  /\ userModelKey \in {NoKey, ModelKeyOf(AZO1), ModelKeyOf(AZ1)}
  /\ modelMap = buildModelMap(settings, EmptyObj)
  /\ chatModel \in StreamModels
  /\ last = NoLast
  /\ cfgIn = EmptyObj
  /\ cfgOut = IdleCfg
  /\ pingIn = EmptyObj
  /\ pingOut = IdlePing
  /\ turn = IdleTurn
  /\ memory = <<>>
  /\ ChainIdle

NextStream ==
  \/ TurnStart
  \/ MemoryLoaded
  \/ StreamOpened
  \/ ChunkArrives
  \/ StreamEnds
  \/ StreamFails
  \/ InvokeReturns
  \/ Abort

SpecStream == InitStream /\ [][NextStream]_vars

-----------------------------------------------------------------------------
(* ChainOrchestrator: ChainManager (chainManager.ts)                       *)
(*                                                                         *)
(* chainManager.ts calls setChatModel without awaiting it and tests the    *)
(* reasoning-only variant by the name "o1-preview", as the synchronous     *)
(* ChatModelManager does: this part links the synchronous class.           *)
(* A handler runs to completion; every store notification it causes is     *)
(* delivered inside it. The handlers are operators over a record of the    *)
(* whole state ("world").                                                  *)

\* prompts, named by the messages they hold
BARE_PROMPT == "history+input"
SYSTEM_PROMPT == "system+history+input"

\* promptManager.getChatPrompt(): the default chat prompt, with the system prompt
getChatPrompt == "chatPrompt"

HasSystemMessage(prompt) == prompt \in {SYSTEM_PROMPT, getChatPrompt, "systemMessage"}

ChainTypes == {LLM_CHAIN, VAULT_QA_CHAIN, COPILOT_PLUS_CHAIN}

\* getChainType(): the user's choice, else settings.defaultChainType
getChainType(s, uct) == IF uct # "" THEN uct ELSE s.defaultChainType

\* ChainFactory.createNewLLMChain({llm, memory, prompt})
createNewLLMChain(llm, prompt) == [kind |-> "llm", llm |-> llm, prompt |-> prompt]

\* ChainFactory.createConversationalRetrievalChain({llm, retriever, systemMessage})
createConversationalRetrievalChain(llm) ==
  [kind |-> "retrieval", llm |-> llm, prompt |-> "systemMessage"]

\* getEffectivePrompt(customModel)
getEffectivePrompt(customModel) ==
  IF customModel.name = "o1-preview" THEN BARE_PROMPT ELSE SYSTEM_PROMPT

\* what the environment does to one handler: the provider constructor and
\* embeddingsManager.getEmbeddingsAPI()
ChainEnvs == [ctor : {"ok", "throws"}, embeddings : BOOLEAN]

\* the same for a handler that constructs no model
SelectEnvs == {env \in ChainEnvs : env.ctor = "ok"}

\* the whole state as one record, with the tallies of the handler that runs:
\*   selects      setChain calls
\*   rejected     setChain calls that ended in a rejected promise
\*   stale        an activation ran while the registry was not the one built
\*                from the settings snapshot in the store
World(s, umk, mm, cm, ch, rch, uct, pend) ==
  [settings |-> s, userModelKey |-> umk, modelMap |-> mm, chatModel |-> cm,
   chain |-> ch, retrievalChain |-> rch, userChainType |-> uct, pending |-> pend,
   selects |-> 0, rejected |-> 0, stale |-> FALSE]

\* chain, retrieval chain and chain type of a world
Selected(w) == <<w.chain, w.retrievalChain, getChainType(w.settings, w.userChainType)>>

\* an embeddings check that never fails
EmbeddingsReady_Always(env) == TRUE

\* initializeQAChain up to its first await: getEmbeddingsAPI() is truthy
EmbeddingsReady(env) == env.embeddings

\* what a setChain suspended in initializeQAChain holds on to: its chain type,
\* the model it read, and the prompt the PLUS branch will use
Suspended(chainType, llm, prompt) ==
  [chainType |-> chainType, llm |-> llm,
   prompt |-> IF chainType = VAULT_QA_CHAIN THEN "unused" ELSE prompt]

\* a prompt manager that hands out another prompt than the chain in place has
PromptFor_Alternating(w, options) ==
  IF w.chain.prompt = getChatPrompt THEN BARE_PROMPT ELSE getChatPrompt

\* options.prompt || chatPrompt: the prompt of the chain setChain builds; the
\* prompt manager's chat prompt is the same in every world
PromptFor(w, options) ==
  IF "prompt" \in DOMAIN options THEN options.prompt ELSE getChatPrompt

\* a store that calls the chain-type listeners on every write of a type that
\* is built behind an await, changed or not
NotifiesChainType_OnEveryWrite(previous, next) ==
  previous # next \/ next \in {VAULT_QA_CHAIN, COPILOT_PLUS_CHAIN}

\* settingsStore.set(chainTypeAtom, chainType): the listeners subscribed to
\* chainTypeAtom are called only when the value of the atom has changed
NotifiesChainType(previous, next) == previous # next

RECURSIVE setChain(_, _, _, _)
RECURSIVE setChainType(_, _, _)
RECURSIVE setModelKey(_, _, _)
RECURSIVE createChainWithNewModel(_, _)

\* setChain(chainType, options) up to its first await or its end.
\* getChatModel() throws when no model is active: the promise is rejected and
\* nothing was touched. The QA and PLUS branches suspend in initializeQAChain
\* and go on in ResumeSelect.
setChain(w, chainType, options, env) ==
  LET w0 == [w EXCEPT !.selects = @ + 1]
      chatModelNow == w.chatModel
      prompt == PromptFor(w, options)
      rejected == [w0 EXCEPT !.rejected = @ + 1]
  IN  IF chatModelNow = NoModel THEN rejected
      ELSE IF chainType = LLM_CHAIN
        THEN setChainType([w0 EXCEPT !.chain = createNewLLMChain(chatModelNow, prompt)],
                          LLM_CHAIN, env)
      \* initializeQAChain throws "Error getting embeddings API"
      ELSE IF ~EmbeddingsReady(env) THEN rejected
      ELSE [w0 EXCEPT !.pending = @ (+) SetToBag({Suspended(chainType, chatModelNow,
                                                            prompt)})]

\* setChainType(chainType) and, when getChainType() changes, the subscription
\* of the ChainManager constructor: setChain(getChainType(), {refreshIndex})
setChainType(w, chainType, env) ==
  LET w1 == [w EXCEPT !.userChainType = chainType]
  IN  IF ~NotifiesChainType(getChainType(w.settings, w.userChainType), chainType) THEN w1
      ELSE setChain(w1, chainType, EmptyObj, env)

\* setModelKey(modelKey) and, when getModelKey() changes, the subscription of
\* the ChainManager constructor: createChainWithNewModel()
setModelKey(w, modelKey, env) ==
  LET w1 == [w EXCEPT !.userModelKey = modelKey]
  IN  IF getModelKey(w.settings, w.userModelKey) = modelKey THEN w1
      ELSE createChainWithNewModel(w1, env)

\* createChainWithNewModel(): activate the selected descriptor (the first
\* built-in when the selection names none) and rebuild the chain; whatever
\* setChatModel throws is caught and logged
createChainWithNewModel(w, env) ==
  LET selectedKey == getModelKey(w.settings, w.userModelKey)
      i == IndexOfKey(w.settings.activeModels, selectedKey)
      found == IF i = 0 THEN BUILTIN_CHAT_MODELS[1] ELSE w.settings.activeModels[i]
      newModelKey == ModelKeyOf(found)
      customModel == applyAzureDeployment(w.settings, newModelKey, found)
      \* the deployment is copied into the descriptor object of the settings
      s1 == IF i = 0 THEN w.settings ELSE WithModel(w.settings, i, customModel)
      w1 == [w EXCEPT !.settings = s1,
                      !.stale = @ \/ w.modelMap # buildModelMap(w.settings, w.modelMap)]
      r == setChatModelSync(s1, w.userModelKey, w.modelMap, w.chatModel, customModel, env)
  IN  IF r.threw THEN w1
      ELSE LET w2 == setModelKey(w1, newModelKey, env)
               w3 == IF r.outcome = "ok" THEN [w2 EXCEPT !.chatModel = r.chatModel]
                     ELSE w2
           IN  setChain(w3, getChainType(w3.settings, w3.userChainType),
                        [prompt |-> getEffectivePrompt(customModel)], env)

\* a settings write with both subscriptions, in the order they were made:
\* ChatModelManager (buildModelMap, validateCurrentModel), then ChainManager
\* (createChainWithNewModel)
\* the subscriptions called in the other order
onSettingsChange_ChainManagerFirst(w, partial, env) ==
  LET w1 == createChainWithNewModel([w EXCEPT !.settings = setSettings(w.settings, partial)],
                                    env)
      mm1 == buildModelMap(w1.settings, w1.modelMap)
  IN  [w1 EXCEPT !.modelMap = mm1,
                 !.chatModel = validateCurrentModel(mm1, w1.chatModel,
                                                    getModelKey(w1.settings,
                                                                w1.userModelKey))]

onSettingsChange(w, partial, env) ==
  LET s1 == setSettings(w.settings, partial)
      mm1 == buildModelMap(s1, w.modelMap)
      cm1 == validateCurrentModel(mm1, w.chatModel, getModelKey(s1, w.userModelKey))
  IN  createChainWithNewModel([w EXCEPT !.settings = s1, !.modelMap = mm1,
                                        !.chatModel = cm1], env)

\* the rest of a suspended setChain, after initializeQAChain resolved
resumeSetChain(w, p, env) ==
  IF p.chainType = VAULT_QA_CHAIN
    THEN setChainType([w EXCEPT !.retrievalChain =
                                  createConversationalRetrievalChain(p.llm)],
                      VAULT_QA_CHAIN, env)
    ELSE setChainType([w EXCEPT !.chain = createNewLLMChain(p.llm, p.prompt)],
                      COPILOT_PLUS_CHAIN, env)

\* validateChatModel(): getChatModel() returns, so the check passes
validateChatModel_Lenient(cm) == TRUE

validateChatModel(cm) == cm # NoModel

\* validateChainInitialization(): a missing chain is rebuilt, not awaited
validateChainInitialization(w, env) ==
  IF w.chain = NoChain
    THEN setChain(w, getChainType(w.settings, w.userChainType), EmptyObj, env)
    ELSE w

\* the chain the runner made by getChainRunner() hands the input to
RunnerChain(w) ==
  IF getChainType(w.settings, w.userChainType) = VAULT_QA_CHAIN
    THEN w.retrievalChain ELSE w.chain

\* a catch block that swallows nothing
CatchesFailure_Never(isO1) == FALSE

\* a catch block that swallows every failure
CatchesFailure_Always(isO1) == TRUE

\* catch (error) { if (isO1PreviewModel) {...; return errorMessage} else throw error }
CatchesFailure(isO1) == isO1

\* the errorMessage of the catch block
TranslatedText(message) ==
  IF message = "system message not supported"
    THEN <<"Error: o1-preview models do not support system messages.">>
    ELSE <<"Error in o1-preview model: ", message>>

\* addMessage({message, sender: AI_SENDER, isVisible: true, timestamp})
ChainMessage(text) == [sender |-> "ai", message |-> text, isVisible |-> TRUE]

-----------------------------------------------------------------------------
(* SpecChain: the chain manager wired to the stores and the active model   *)
(*                                                                         *)
(* The forms and pickers write to the stores between turns (run.pc =       *)
(* "idle"); a suspended setChain may go on between turns and while the     *)
(* runner of a turn is awaited.                                            *)

TheWorld ==
  World(settings, userModelKey, modelMap, chatModel, chain, retrievalChain,
        userChainType, pending)

\* the state a handler leaves behind
Install(w) ==
  /\ BagCardinality(w.pending) <= MaxPending
  /\ settings' = w.settings
  /\ userModelKey' = w.userModelKey
  /\ modelMap' = w.modelMap
  /\ chatModel' = w.chatModel
  /\ chain' = w.chain
  /\ retrievalChain' = w.retrievalChain
  /\ userChainType' = w.userChainType
  /\ pending' = w.pending

\* history: the handler that ran last, and whether an activation in it read a
\* registry older than the settings snapshot
Tally(op, w) == [op |-> op, stale |-> w.stale]

\* a model, settings or chain-type change ends the stretch in which a
\* substituted prompt could still be in the shared chain unnoticed
Changed(r) == [r EXCEPT !.substituted = FALSE, !.afterSubstitution = FALSE]

ChainFrame == UNCHANGED <<variant, memory, cfgVars, pingVars, turn>>

ChainSettings ==
  setSettings(BaseSettings, [activeModels |-> <<GPT, AZO1>>,
                             azureOpenAIApiDeployments |-> <<D_AZO1>>])

\* new ChatModelManager(); new ChainManager(): the registry is built, then the
\* constructor calls createChainWithNewModel()
InitChain ==
  /\ variant = "sync"
  /\ \E env \in ChainEnvs :
       \E w \in {createChainWithNewModel(
                   World(ChainSettings, NoKey, buildModelMap(ChainSettings, EmptyObj),
                         NoModel, NoChain, NoChain, "", EmptyBag), env)} :
         /\ settings = w.settings
         /\ userModelKey = w.userModelKey
         /\ modelMap = w.modelMap
         /\ chatModel = w.chatModel
         /\ chain = w.chain
         /\ retrievalChain = w.retrievalChain
         /\ userChainType = w.userChainType
         /\ pending = w.pending
  /\ last = NoLast
  /\ cfgIn = EmptyObj
  /\ cfgOut = IdleCfg
  /\ pingIn = EmptyObj
  /\ pingOut = IdlePing
  /\ turn = IdleTurn
  /\ memory = <<>>
  /\ run = IdleRun

\* the settings form saves the OpenAI key
ChainSettingsChanged ==
  \E partial \in {[openAIApiKey |-> k] : k \in {"", "enc_g"}}, env \in ChainEnvs :
    /\ run.pc = "idle"
    /\ Merge(settings, partial) # settings
    /\ \E w \in {onSettingsChange(TheWorld, partial, env)} :
         /\ Install(w)
         /\ last' = Tally("settings", w)
    /\ run' = Changed(run)
    /\ ChainFrame

\* the model picker: setModelKey(key)
ModelKeyChanged ==
  \E d \in {GPT, AZO1, MYSTERY}, env \in ChainEnvs :
    /\ run.pc = "idle"
    /\ userModelKey # ModelKeyOf(d)
    /\ \E w \in {setModelKey(TheWorld, ModelKeyOf(d), env)} :
         /\ Install(w)
         /\ last' = Tally("modelKey", w)
    /\ run' = Changed(run)
    /\ ChainFrame

\* the mode picker: setChainType(chainType)
ChainTypeChanged ==
  \E t \in ChainTypes, env \in SelectEnvs :
    /\ run.pc = "idle"
    /\ userChainType # t
    /\ \E w \in {setChainType(TheWorld, t, env)} :
         /\ Install(w)
         /\ last' = Tally("chainType", w)
    /\ run' = Changed(run)
    /\ ChainFrame

\* a suspended setChain goes on: getOrInitializeDb (and the index refresh)
\* resolved, or rejected and with it the setChain promise
ResumeSelect ==
  \E p \in BagToSet(pending), resolved \in BOOLEAN, env \in SelectEnvs :
    /\ run.pc \in {"idle", "running"}
    /\ \E w0 \in {[TheWorld EXCEPT !.pending = @ (-) SetToBag({p})]} :
         \E w \in {IF resolved THEN resumeSetChain(w0, p, env) ELSE w0} :
           /\ Install(w)
           /\ last' = Tally("resume", w)
    /\ run' = Changed(run)
    /\ ChainFrame

\* runChain(userMessage, ..., options) up to the await of chainRunner.run
RunChain ==
  /\ run.pc = "idle"
  /\ \E ignoreSystemMessage \in BOOLEAN, env \in SelectEnvs :
       IF ~validateChatModel(chatModel)
         THEN /\ run' = [run EXCEPT !.pc = "rejected",
                                    !.ignoreSystemMessage = ignoreSystemMessage,
                                    !.hadModel = chatModel # NoModel,
                                    !.rejection = "No valid chat model available"]
              /\ last' = Tally("runChain", TheWorld)
              /\ UNCHANGED <<settings, userModelKey, modelMap, chatModel, chain,
                             retrievalChain, userChainType, pending>>
         ELSE
           \E w1 \in {validateChainInitialization(TheWorld, env)} :
             LET isO1 == IsO1Instance(w1.chatModel)
                 substitutes == ignoreSystemMessage \/ isO1
             IN  \E w \in {IF substitutes
                             THEN setChain(w1, getChainType(w1.settings, w1.userChainType),
                                           [prompt |-> BARE_PROMPT], env)
                             ELSE w1} :
                   /\ Install(w)
                   /\ last' = Tally("runChain", w)
                   /\ run' = [run EXCEPT !.pc = "running",
                                         !.ignoreSystemMessage = ignoreSystemMessage,
                                         !.isO1 = isO1,
                                         !.hadModel = chatModel # NoModel,
                                         !.substituted = substitutes,
                                         !.selects = w.selects,
                                         !.runnerStarted = TRUE,
                                         !.chainUsed = RunnerChain(w)]
  /\ ChainFrame

\* chainRunner.run resolves: the runner streamed the answer and added it
RunnerReturns ==
  /\ run.pc = "running"
  /\ run' = [run EXCEPT !.pc = "returned", !.partials = 1, !.result = <<"answer">>,
                        !.messages = Append(@, ChainMessage(<<"answer">>))]
  /\ UNCHANGED <<mgrVars, chain, retrievalChain, userChainType, pending>>
  /\ ChainFrame

\* chainRunner.run rejects: the catch block of runChain
RunnerThrows ==
  /\ run.pc = "running"
  /\ \E message \in {"connection lost", "system message not supported"} :
       IF CatchesFailure(run.isO1)
         THEN run' = [run EXCEPT !.pc = "returned", !.error = message,
                                 !.result = TranslatedText(message),
                                 !.messages = Append(@, ChainMessage(TranslatedText(message)))]
         ELSE run' = [run EXCEPT !.pc = "rejected", !.error = message,
                                 !.rejection = message]
  /\ UNCHANGED <<mgrVars, chain, retrievalChain, userChainType, pending>>
  /\ ChainFrame

\* the caller is done with the turn; the next one may start
TurnEnds ==
  /\ run.pc \in {"returned", "rejected"}
  /\ run' = [IdleRun EXCEPT !.afterSubstitution = run.afterSubstitution \/ run.substituted]
  /\ UNCHANGED <<mgrVars, chain, retrievalChain, userChainType, pending>>
  /\ ChainFrame

NextChain ==
  \/ ChainSettingsChanged
  \/ ModelKeyChanged
  \/ ChainTypeChanged
  \/ ResumeSelect
  \/ RunChain
  \/ RunnerReturns
  \/ RunnerThrows
  \/ TurnEnds

SpecChain == InitChain /\ [][NextChain]_vars

-----------------------------------------------------------------------------
(* SpecCascade: one external change at a time, each followed to its end    *)

\* more setChain calls than any cascade of one change makes
CascadeLimit == 4

\* the world a handler leaves, and the number of setChain calls made since the
\* external change
CascadeStep(op, w) ==
  /\ Install(w)
  /\ last' = [op |-> op, stale |-> w.stale,
              rebuilds |-> IF op = "resume" THEN last.rebuilds + w.selects
                           ELSE w.selects]
  /\ run' = Changed(run)
  /\ ChainFrame

\* a settings write, a model-key change or a chain-type change made while no
\* setChain is suspended
QuiescentChange ==
  /\ pending = EmptyBag
  /\ run.pc = "idle"
  /\ \/ \E partial \in {[openAIApiKey |-> k] : k \in {"", "enc_g"}}, env \in ChainEnvs :
          /\ Merge(settings, partial) # settings
          /\ \E w \in {onSettingsChange(TheWorld, partial, env)} :
               CascadeStep("settings", w)
     \/ \E d \in {GPT, AZO1, MYSTERY}, env \in ChainEnvs :
          /\ userModelKey # ModelKeyOf(d)
          /\ \E w \in {setModelKey(TheWorld, ModelKeyOf(d), env)} :
               CascadeStep("modelKey", w)
     \/ \E t \in ChainTypes, env \in SelectEnvs :
          /\ userChainType # t
          /\ \E w \in {setChainType(TheWorld, t, env)} :
               CascadeStep("chainType", w)

\* a suspended setChain goes on, with the listeners its setChainType calls
CascadeResume ==
  \E p \in BagToSet(pending), resolved \in BOOLEAN, env \in SelectEnvs :
    /\ last.rebuilds <= CascadeLimit
    /\ \E w0 \in {[TheWorld EXCEPT !.pending = @ (-) SetToBag({p})]} :
         \E w \in {IF resolved THEN resumeSetChain(w0, p, env) ELSE w0} :
           CascadeStep("resume", w)

NextCascade ==
  \/ QuiescentChange
  \/ CascadeResume

\* the promise a suspended setChain awaits settles: getOrInitializeDb and
\* indexVaultToVectorStore resolve or reject
SpecCascade == InitChain /\ [][NextCascade]_vars /\ WF_vars(CascadeResume)

-----------------------------------------------------------------------------
(* SpecSelect: setChain applied to drawn chains, models and chain types    *)

SelectChains ==
  {NoChain} \cup {createNewLLMChain(m, p) : m \in StreamModels \ {NoModel},
                                           p \in {getChatPrompt, BARE_PROMPT}}

InitSelect ==
  /\ variant = "sync"
  /\ settings = ChainSettings
  /\ userModelKey = NoKey
  /\ modelMap = buildModelMap(settings, EmptyObj)
  /\ chatModel \in StreamModels
  /\ chain \in SelectChains
  /\ retrievalChain \in {NoChain} \cup {createConversationalRetrievalChain(m) :
                                          m \in StreamModels \ {NoModel}}
  /\ userChainType \in {""} \cup ChainTypes
  /\ pending = EmptyBag
  /\ last = NoLast
  /\ cfgIn = EmptyObj
  /\ cfgOut = IdleCfg
  /\ pingIn = EmptyObj
  /\ pingOut = IdlePing
  /\ turn = IdleTurn
  /\ memory = <<>>
  /\ run = IdleRun

\* chainManager.setChain(chainType, options)
Select ==
  \E chainType \in ChainTypes, options \in {EmptyObj, [prompt |-> BARE_PROMPT]},
     env \in SelectEnvs :
    /\ \E w \in {setChain(TheWorld, chainType, options, env)} :
         /\ Install(w)
         /\ last' = [op |-> "select", chainType |-> chainType,
                     embeddings |-> env.embeddings, hadModel |-> chatModel # NoModel,
                     rejected |-> w.rejected > 0, before |-> Selected(TheWorld),
                     suspendedBefore |-> pending, options |-> options,
                     selects |-> w.selects,
                     \* the call before this one was the same call
                     again |-> IF last.op = "select"
                                 THEN /\ last.chainType = chainType
                                      /\ last.options = options
                                 ELSE FALSE]
    /\ UNCHANGED run
    /\ ChainFrame

NextSelect ==
  \/ Select
  \/ ResumeSelect

SpecSelect == InitSelect /\ [][NextSelect]_vars

-----------------------------------------------------------------------------
(* SpecSettings: the settings store on its own, before a manager subscribes *)

\* the rows a model table can be saved with: several of them share a key
ChatRows ==
  {GPT, [GPT EXCEPT !.enabled = FALSE], AZ1, MYSTERY}

EmbeddingRows == {EMB, [EMB EXCEPT !.enabled = FALSE], EMB_LOCAL}

ListsOf(rows) == UNION {[1..n -> rows] : n \in 0..MaxModels}

\* two rows of the list have the same (name, provider)
HasDuplicates(list) ==
  \E i, j \in DOMAIN list : i # j /\ ModelKeyOf(list[i]) = ModelKeyOf(list[j])

ConfigTables == {[k \in {ModelKeyOf(GPT)} |-> [temperature |-> 2]]}

\* one row is not an AzureDeployment
InvalidDeployments == <<D_AZ1, [modelKey |-> ModelKeyOf(AZO1)]>>

InitSettings ==
  /\ variant = "sync"
  /\ settings = BaseSettings
  /\ userModelKey = NoKey
  /\ modelMap = EmptyObj
  /\ chatModel = NoModel
  /\ last = NoLast
  /\ cfgIn = EmptyObj
  /\ cfgOut = IdleCfg
  /\ pingIn = EmptyObj
  /\ pingOut = IdlePing
  /\ turn = IdleTurn
  /\ memory = <<>>
  /\ ChainIdle

StoreFrame ==
  UNCHANGED <<variant, memory, userModelKey, modelMap, chatModel, cfgVars, pingVars, turn,
              chainVars>>

\* setSettings(partial)
StoreSetSettings ==
  /\ \/ \E list \in ListsOf(ChatRows) :
          /\ settings' = setSettings(settings, [activeModels |-> list])
          /\ last' = [op |-> "setSettings", duplicates |-> HasDuplicates(list)]
     \/ \E list \in ListsOf(EmbeddingRows) :
          /\ settings' = setSettings(settings, [activeEmbeddingModels |-> list])
          /\ last' = [op |-> "setSettings", duplicates |-> HasDuplicates(list)]
  /\ StoreFrame

\* updateSetting(key, value)
StoreUpdateSetting ==
  /\ \/ \E list \in ListsOf(ChatRows) :
          /\ settings' = updateSetting(settings, "activeModels", list)
          /\ last' = [op |-> "updateSetting", duplicates |-> HasDuplicates(list)]
     \/ \E list \in ListsOf(EmbeddingRows) :
          /\ settings' = updateSetting(settings, "activeEmbeddingModels", list)
          /\ last' = [op |-> "updateSetting", duplicates |-> HasDuplicates(list)]
     \/ \E table \in ConfigTables :
          /\ settings' = updateSetting(settings, "modelConfigs", table)
          /\ last' = [op |-> "updateSetting", duplicates |-> FALSE]
     \/ \E deps \in {<<D_AZ1>>, InvalidDeployments} :
          /\ settings' = updateSetting(settings, "azureOpenAIApiDeployments", deps)
          /\ last' = [op |-> "updateSetting", duplicates |-> FALSE]
  /\ StoreFrame

\* resetSettings()
StoreResetSettings ==
  /\ settings' = resetSettings(settings)
  /\ last' = [op |-> "resetSettings", duplicates |-> FALSE]
  /\ StoreFrame

NextSettings ==
  \/ StoreSetSettings
  \/ StoreUpdateSetting
  \/ StoreResetSettings

SpecSettings == InitSettings /\ [][NextSettings]_vars

-----------------------------------------------------------------------------
(* SpecForm: the Azure deployments form of the settings tab                *)

\* ChatModels of constants: the entries of the enum the form lists
ChatModels == {"gpt-4o", "gemini-1.5-pro", "azure-openai"}

\* modelKeyMap[model] of ApiSettings: the value a Select item carries
modelKeyMap(model) ==
  CASE model = "gpt-4o" -> "gpt-4o"
    [] model = "gemini-1.5-pro" -> "gemini-pro"
    [] model = "azure-openai" -> "azure-openai"
    [] OTHER -> ""

\* value={modelKeyMap[model] || model}: a string without the "|" separator,
\* so as a key it has one part only
SelectItemValue(model) == <<OrStr(modelKeyMap(model), model)>>

\* handleAddAzureDeployment: the row appended to the form's list
handleAddAzureDeployment(s) ==
  [modelKey |-> NoKey, deploymentName |-> "",
   instanceName |-> s.azureOpenAIApiInstanceName,
   apiVersion |-> s.azureOpenAIApiVersion,
   apiKey |-> s.azureOpenAIApiKey, modelFamily |-> ""]

\* the rows handleSaveDeployments rejects
\* (`${modelKey}-${deploymentName}` must not repeat)
SaveErrors(azureDeployments, override) ==
  {i \in DOMAIN azureDeployments :
     \/ azureDeployments[i].modelKey = NoKey
     \/ azureDeployments[i].deploymentName = ""
     \/ azureDeployments[i].apiKey = "" /\ ~override
     \/ \E j \in 1..(i - 1) :
          /\ azureDeployments[j].modelKey = azureDeployments[i].modelKey
          /\ azureDeployments[j].deploymentName = azureDeployments[i].deploymentName}

\* handleSaveDeployments: the snapshot after the button is pressed
handleSaveDeployments(s, azureDeployments, override) ==
  IF SaveErrors(azureDeployments, override) # {} THEN s
  ELSE updateSetting(s, "azureOpenAIApiDeployments", azureDeployments)

\* the form is mounted with the saved deployments, one row is added, its
\* model is picked in the Select (or left empty), a deployment name is typed
\* (or not), and Save is pressed
FormSaveDeployments ==
  /\ Len(settings.azureOpenAIApiDeployments) < MaxModels
  /\ \A i \in DOMAIN settings.azureOpenAIApiDeployments :
        isAzureDeployment(settings.azureOpenAIApiDeployments[i])
  /\ \E value \in {SelectItemValue(model) : model \in ChatModels} \cup {NoKey},
        name \in {"", "dep-f"}, override \in BOOLEAN :
        LET row == Merge(handleAddAzureDeployment(settings),
                         [modelKey |-> value, deploymentName |-> name])
            azureDeployments == Append(settings.azureOpenAIApiDeployments, row)
        IN  /\ settings' = handleSaveDeployments(settings, azureDeployments, override)
            /\ last' = [op |-> "saveDeployments", duplicates |-> FALSE,
                        saved |-> SaveErrors(azureDeployments, override) = {},
                        added |-> row]
  /\ StoreFrame

\* the snapshot the settings tab is opened on
InitForm ==
  /\ variant = "sync"
  /\ \E list \in ListsOf({GPT, AZ1, AZO1}), deps \in {<<>>, <<D_AZ1>>},
        g \in {EmptyObj, [azureOpenAIApiKey |-> ""]} :
        settings = setSettings(Merge(BaseSettings, g),
                               [activeModels |-> list,
                                azureOpenAIApiDeployments |-> deps])
  /\ userModelKey = NoKey
  /\ modelMap = EmptyObj
  /\ chatModel = NoModel
  /\ last = NoLast
  /\ cfgIn = EmptyObj
  /\ cfgOut = IdleCfg
  /\ pingIn = EmptyObj
  /\ pingOut = IdlePing
  /\ turn = IdleTurn
  /\ memory = <<>>
  /\ ChainIdle

NextForm == FormSaveDeployments

SpecForm == InitForm /\ [][NextForm]_vars

-----------------------------------------------------------------------------
(* SpecMemory: a saved conversation loaded into the conversation memory    *)

MaxMessages == 4

\* USER_SENDER, AI_SENDER of constants
USER_SENDER == "user"
AI_SENDER == "ai"

\* the ChatMessage values of a saved conversation
ChatMessages ==
  {[sender |-> USER_SENDER, message |-> "q1"], [sender |-> USER_SENDER, message |-> "q2"],
   [sender |-> AI_SENDER, message |-> "a1"], [sender |-> AI_SENDER, message |-> "a2"]}

MessageLists == UNION {[1..n -> ChatMessages] : n \in 0..MaxMessages}

\* a test that takes any two neighbours for an exchange
IsExchange_AnySender(messages, i) == i + 1 <= Len(messages)

\* userMsg && aiMsg && userMsg.sender === USER_SENDER, for userMsg = messages[i]
\* and aiMsg = messages[i + 1] (positions counted from 1)
IsExchange(messages, i) ==
  /\ i <= Len(messages)
  /\ i + 1 <= Len(messages)
  /\ messages[i].sender = USER_SENDER

\* memory.saveContext({input}, {output}): the exchange is appended
saveContext(mem, input, output) == Append(mem, <<input, output>>)

\* for (let i = 0; i < messages.length; i += 2) {...}
RECURSIVE SaveFrom(_, _, _)
SaveFrom(messages, i, mem) ==
  IF i > Len(messages) THEN mem
  ELSE SaveFrom(messages, i + 2,
                IF IsExchange(messages, i)
                  THEN saveContext(mem, messages[i].message, messages[i + 1].message)
                  ELSE mem)

\* updateMemoryWithLoadedMessages(messages): clearChatMemory(), then the loop
updateMemoryWithLoadedMessages(mem, messages) == SaveFrom(messages, 1, <<>>)

InitMemory ==
  /\ variant = "sync"
  /\ settings = BaseSettings
  /\ userModelKey = NoKey
  /\ modelMap = EmptyObj
  /\ chatModel = NoModel
  /\ last = NoLast
  /\ cfgIn = EmptyObj
  /\ cfgOut = IdleCfg
  /\ pingIn = EmptyObj
  /\ pingOut = IdlePing
  /\ turn = IdleTurn
  /\ memory = <<>>
  /\ ChainIdle

\* chainManager.updateMemoryWithLoadedMessages(messages)
LoadMessages ==
  \E messages \in MessageLists :
    /\ memory' = updateMemoryWithLoadedMessages(memory, messages)
    /\ last' = [op |-> "loadMessages", messages |-> messages,
                hadMemory |-> memory # <<>>]
    /\ UNCHANGED <<variant, settings, userModelKey, modelMap, chatModel, cfgVars,
                   pingVars, turn, chainVars>>

NextMemory == LoadMessages

SpecMemory == InitMemory /\ [][NextMemory]_vars

-----------------------------------------------------------------------------
(* SpecActivate: setChatModel applied to drawn settings and descriptors    *)

\* the descriptor the user added: plain Azure, reasoning-only on Azure without
\* and with Azure fields of its own, reasoning-only on two other providers
ActivateModels ==
  {AZ1, AZO1,
   Merge(AZO1, [apiKey |-> "enc_k1", azureOpenAIApiInstanceName |-> "inst-m",
                azureOpenAIApiDeploymentName |-> "dep-m",
                azureOpenAIApiVersion |-> "ver-m"]),
   O1OPENAI, O1CLAUDE}

\* the global Azure fields of the settings form, some left empty
ActivateGlobals == {EmptyObj, [azureOpenAIApiVersion |-> ""], [azureOpenAIApiKey |-> ""]}

ActivateDeployments ==
  {<<>>, <<D_AZ1>>, <<D_AZO1>>, <<[D_AZO1 EXCEPT !.apiVersion = ""]>>}

InitActivate ==
  /\ variant \in Variants
  /\ \E m \in ActivateModels, g \in ActivateGlobals, deps \in ActivateDeployments :
       settings = setSettings(Merge(BaseSettings, g),
                              [activeModels |-> <<m, AZ1>>,
                               azureOpenAIApiDeployments |-> deps])
  /\ userModelKey \in {NoKey, ModelKeyOf(AZ1)}
  /\ modelMap = buildModelMap(settings, EmptyObj)
  /\ chatModel \in {NoModel, NewInstance("sync", ModelKeyOf(GPT),
                                         [modelName |-> "gpt-4o", streaming |-> TRUE])}
  /\ last = NoLast
  /\ cfgIn = EmptyObj
  /\ cfgOut = IdleCfg
  /\ pingIn = EmptyObj
  /\ pingOut = IdlePing
  /\ turn = IdleTurn
  /\ memory = <<>>
  /\ ChainIdle

\* the settings form saves a provider key, or the model table with the added
\* descriptor disabled
ActivateSettingsChanged ==
  \E partial \in {[openAIApiKey |-> ""], [openAIApiKey |-> "enc_g"],
                   [anthropicApiKey |-> ""],
                   [activeModels |->
                      <<[settings.activeModels[1] EXCEPT !.enabled = FALSE]>>
                      \o Tail(settings.activeModels)]} :
    /\ setSettings(settings, partial) # settings
    /\ SettingsNotified(partial)
    /\ last' = [op |-> "settings",
                cleared |-> chatModel # NoModel /\ chatModel' = NoModel]

NextActivate ==
  \/ SetChatModel
  \/ ActivateSettingsChanged

SpecActivate == InitActivate /\ [][NextActivate]_vars

-----------------------------------------------------------------------------
(* Properties                                                              *)

Activated == last.op = "setChatModel"

\* C1: an activation whose ping fails leaves the active model as it was before
\* the call (it neither clears nor replaces it).
C1_PingFailureKeepsActiveModel ==
  (Activated /\ last.outcome = "pingErr") => last.modelKept

\* C2: when the provider constructor throws during an activation, the active
\* model is absent afterwards and the call fails towards its caller.
C2_ConstructorFailureLeavesAbsent ==
  (Activated /\ last.ctorThrew) => (chatModel = NoModel /\ last.threw)

\* C3: an activation for a key without registry entry, or whose entry has no
\* credentials, fails before any configuration is built, any ping attempt is
\* made or any constructor is called, and leaves the active model and the
\* selected model key as they were.
C3_CredentialFailureIsClean ==
  (Activated /\ LET k == ModelKeyOf(last.model)
                IN  k \notin DOMAIN modelMap \/ ~modelMap[k].hasApiKey)
    => /\ last.threw
       /\ ~last.built
       /\ last.attempts = 0
       /\ ~last.ctorCalled
       /\ last.modelKept
       /\ last.keyKept

\* C3 witness: with a model active, an activation was refused for missing
\* credentials.
C3_Witness ==
  /\ Activated
  /\ last.outcome = "noApiKey"
  /\ last.hadModel
  /\ chatModel # NoModel

ConcatText(chunks, n) ==
  LET RECURSIVE cat(_)
      cat(i) == IF i = 0 THEN <<>> ELSE cat(i - 1) \o TextOf(chunks[i])
  IN  cat(IF n < Len(chunks) THEN n ELSE Len(chunks))

FinalText == turn.messages[Len(turn.messages)].message

\* C4: when cancellation is requested after fragment k was consumed, the final
\* assistant message is the concatenation of the first k or the first k+1
\* fragments; the flag is tested once per fragment yielded, before the fragment
\* is appended.
C4_CancellationBound ==
  /\ turn.consumed <= turn.checks
  /\ turn.checks = Len(turn.delivered)
  /\ (turn.pc = "done" /\ turn.path = "stream" /\ turn.abortAt >= 0)
       => FinalText \in {ConcatText(turn.delivered, turn.abortAt),
                         ConcatText(turn.delivered, turn.abortAt + 1)}

\* C4 witness: cancelled after the first fragment, a second non-empty fragment
\* was yielded, and the final message holds the first fragment only.
C4_Witness ==
  /\ turn.pc = "done"
  /\ turn.path = "stream"
  /\ turn.abortAt = 1
  /\ Len(turn.delivered) = 2
  /\ TextOf(turn.delivered[1]) # <<>>
  /\ TextOf(turn.delivered[2]) # <<>>
  /\ FinalText = TextOf(turn.delivered[1])

\* one attempt of the linked class, with the given CORS mode
TryPing(enableCors) ==
  IF variant = "sync"
    THEN tryPingSync(settings, getModelKey(settings, userModelKey),
                     pingIn.model, enableCors, pingIn.net)
    ELSE tryPingAsync(settings, pingIn.model, enableCors, pingIn.net)

FailsWithout == TryPing(FALSE).invoked /\ ~TryPing(FALSE).ok
FailsWith == TryPing(TRUE).invoked /\ ~TryPing(TRUE).ok
SucceedsWith == TryPing(TRUE).invoked /\ TryPing(TRUE).ok

\* C5: for a descriptor whose invocation fails with CORS disabled and succeeds
\* with CORS enabled, ping returns success and raises the CORS-required notice.
C5_CorsFallbackSucceeds ==
  (pingOut.state = "done" /\ FailsWithout /\ SucceedsWith)
    => (pingOut.result.ret = "true" /\ pingOut.result.notice)

\* C6: when both attempts fail, ping reports failure with a message that holds
\* the error of the attempt without CORS and the error of the attempt with CORS.
C6_BothErrorsReported ==
  (pingOut.state = "done" /\ FailsWithout /\ FailsWith)
    => /\ pingOut.result.ret \in {"false", "throw"}
       /\ err2String(TryPing(FALSE).error) \in Range(pingOut.result.message)
       /\ err2String(TryPing(TRUE).error) \in Range(pingOut.result.message)

\* C7: the configuration built for a reasoning-only descriptor has streaming
\* off and temperature 1, whatever the settings and the descriptor's overrides.
C7_ReasoningConfigFixed ==
  (cfgOut.state = "built" /\ IsReasoning(variant, cfgIn) /\ ~IsThrown(cfgOut.result))
    => /\ CtorStreaming(variant, cfgOut.result) = FALSE
       /\ cfgOut.result.temperature = 1

\* C8: when the settings hold a deployment whose modelKey is the key of the
\* descriptor being built, the built configuration carries that deployment's
\* deployment name, instance name, api version and (decrypted) api key, whatever
\* the global Azure settings and the selected model key are.
C8_AzureOverridePrecedence ==
  LET found == FindFirst(settings.azureOpenAIApiDeployments,
                         LAMBDA d : d.modelKey = ModelKeyOf(cfgIn))
  IN  (cfgOut.state = "built" /\ found # {})
        => LET d == CHOOSE x \in found : TRUE
               c == cfgOut.result
           IN  /\ ~IsThrown(c)
               /\ c.azureOpenAIApiDeploymentName = d.deploymentName
               /\ c.azureOpenAIApiInstanceName = d.instanceName
               /\ c.azureOpenAIApiVersion = d.apiVersion
               /\ c.azureOpenAIApiKey = getDecryptedKey(d.apiKey)

\* C9: an activation of an Azure descriptor whose key has no deployment fails
\* with the configuration error of the builder and leaves the active model and
\* the selected model key unchanged.
C9_AzureWithoutDeploymentFails ==
  (/\ Activated
   /\ last.model.provider = AZURE_OPENAI
   /\ ModelKeyOf(last.model) \in DOMAIN modelMap
   /\ modelMap[ModelKeyOf(last.model)].hasApiKey
   /\ \A i \in DOMAIN settings.azureOpenAIApiDeployments :
        settings.azureOpenAIApiDeployments[i].modelKey # ModelKeyOf(last.model))
    => (last.outcome = "configErr" /\ last.modelKept /\ last.keyKept)

\* C10: the registry holds no entry for the key of a descriptor that is
\* disabled in the current active-model set.
C10_NoDisabledInRegistry ==
  \A i \in DOMAIN settings.activeModels :
    ~settings.activeModels[i].enabled
      => ModelKeyOf(settings.activeModels[i]) \notin DOMAIN modelMap

\* C10 witness: a rebuild ran on a set that holds a disabled descriptor of a
\* known provider next to enabled ones.
C10_Witness ==
  /\ last.op = "setActiveModels"
  /\ modelMap # EmptyObj
  /\ \E i \in DOMAIN settings.activeModels :
       /\ ~settings.activeModels[i].enabled
       /\ settings.activeModels[i].provider \in ChatModelProviders

\* the model keys of the enabled descriptors of a recognised provider
EnabledKeys ==
  {ModelKeyOf(settings.activeModels[i]) :
     i \in {j \in DOMAIN settings.activeModels :
              /\ settings.activeModels[j].enabled
              /\ settings.activeModels[j].provider \in ChatModelProviders}}

\* C11: the key set of the registry is exactly the set of model keys of the
\* enabled descriptors with a recognised provider in the current active-model
\* set; no entry of an earlier rebuild survives.
C11_RegistryIsExactlyEnabled == DOMAIN modelMap = EnabledKeys

\* C11 witness: a settings change removed, renamed or disabled a descriptor
\* whose key was in the registry, and the rebuilt registry is not empty.
C11_Witness ==
  /\ last.op = "setActiveModels"
  /\ last.dropped
  /\ modelMap # EmptyObj

\* C16: every failure while producing an AI response ends with exactly one
\* visible assistant error message, and getAIResponse never fails towards its
\* caller.
C16_FailureIsOneErrorMessage ==
  /\ turn.pc # "rejected"
  /\ (turn.pc = "done" /\ turn.path = "error")
       => /\ Len(turn.messages) = 1
          /\ turn.messages[1].isError
          /\ turn.messages[1].isVisible
          /\ turn.messages[1].sender = "ai"

ErrorPrefix == "Error: "

\* C17: every error message handed to addMessage begins with one fixed prefix,
\* which occurs exactly once at the start of the text.
C17_OneErrorPrefix ==
  \A i \in DOMAIN turn.messages :
    turn.messages[i].isError
      => LET m == turn.messages[i].message
         IN  /\ m[1] = ErrorPrefix
             /\ m[2] # ErrorPrefix

\* C18: a turn cancelled during streaming ends without error: consumption has
\* stopped at the cancellation, and exactly one final assistant message is
\* emitted, which is no error message and carries the text accumulated so far.
C18_CancellationIsNotAnError ==
  (turn.pc = "done" /\ turn.path = "stream" /\ turn.aborted)
    => /\ turn.consumed = turn.abortAt
       /\ Len(turn.messages) = 1
       /\ ~turn.messages[1].isError
       /\ turn.messages[1].message = turn.text
       /\ turn.text = ConcatText(turn.delivered, turn.abortAt)

\* C18 witness: the loop met the flag on a fragment it did not consume, after
\* some text had been accumulated.
C18_Witness ==
  /\ turn.pc = "done"
  /\ turn.path = "stream"
  /\ turn.aborted
  /\ turn.checks > turn.consumed
  /\ turn.text # <<>>

IsPrefix(a, b) == Len(a) <= Len(b) /\ SubSeq(b, 1, Len(a)) = a

\* the fragments consumed so far that carry text
TextFragments ==
  SelectSeq(SubSeq(turn.delivered, 1, turn.consumed), IsText)

\* C19: each partial-message callback receives the concatenation of the text of
\* all fragments appended so far, successive values are each a prefix of the
\* next, and the final message equals the last callback value (the empty text
\* when there was none).
C19_PartialsAreCumulative ==
  /\ Len(turn.partials) = Len(TextFragments)
  /\ \A i \in DOMAIN turn.partials :
       /\ turn.partials[i] = ConcatText(TextFragments, i)
       /\ i > 1 => IsPrefix(turn.partials[i - 1], turn.partials[i])
  /\ (turn.pc = "done" /\ turn.path = "stream")
       => FinalText = IF turn.partials = <<>> THEN <<>>
                      ELSE turn.partials[Len(turn.partials)]

\* C19 witness: a streamed turn ended after two callbacks with growing text.
C19_Witness ==
  /\ turn.pc = "done"
  /\ turn.path = "stream"
  /\ Len(turn.partials) >= 2
  /\ turn.partials[1] # <<>>
  /\ turn.partials[2] # turn.partials[1]

\* C20: a select of VAULT_QA or PLUS while the embeddings collaborator is absent
\* ends in an error, and the executable chain, the retrieval chain and the
\* current chain type are what they were before the call; nothing of the call
\* is left suspended.
C20_FailedSelectChangesNothing ==
  (/\ last.op = "select"
   /\ last.chainType \in {VAULT_QA_CHAIN, COPILOT_PLUS_CHAIN}
   /\ ~last.embeddings)
    => /\ last.rejected
       /\ Selected(TheWorld) = last.before
       /\ pending = last.suspendedBefore

\* a VAULT_QA select without embeddings was rejected while a model and a chain
\* were in place
C20_Witness ==
  /\ last.op = "select"
  /\ last.chainType = VAULT_QA_CHAIN
  /\ ~last.embeddings
  /\ last.rejected
  /\ last.hadModel
  /\ chain # NoChain

\* C12: a turn started while no model is active is rejected at once: no runner
\* is started (neither the chain nor the model is invoked), no partial text is
\* handed out, no message is added and setChain is not called.
C12_NoModelNoTurn ==
  (run.pc # "idle" /\ ~run.hadModel)
    => /\ run.pc = "rejected"
       /\ run.rejection # ""
       /\ ~run.runnerStarted
       /\ run.partials = 0
       /\ run.messages = <<>>
       /\ run.selects = 0

\* a turn was refused for want of a model although a chain was in place
C12_Witness ==
  /\ run.pc = "rejected"
  /\ ~run.hadModel
  /\ chatModel = NoModel
  /\ chain # NoChain

\* C13: a turn that follows a turn with a substituted prompt, with no model,
\* settings or chain-type change in between, and that neither asks for
\* suppression nor runs a reasoning-only model, hands its input to a chain
\* whose prompt has the system prompt.
C13_SubstitutionIsPerTurn ==
  (/\ run.runnerStarted
   /\ run.afterSubstitution
   /\ ~run.ignoreSystemMessage
   /\ ~run.isO1
   /\ run.chainUsed # NoChain)
    => HasSystemMessage(run.chainUsed.prompt)

\* the runner of a turn on a reasoning-only model failed
FailedOnReasoning == run.runnerStarted /\ run.error # "" /\ run.isO1

\* C14: when the runner fails on a reasoning-only model, runChain does not
\* reject: it adds exactly one visible assistant message with the translated
\* text and returns that text.
C14_ReasoningFailureIsTranslated ==
  FailedOnReasoning
    => /\ run.pc = "returned"
       /\ run.rejection = ""
       /\ run.messages = <<ChainMessage(TranslatedText(run.error))>>
       /\ run.messages[1].isVisible
       /\ run.messages[1].sender = "ai"
       /\ run.result = run.messages[1].message

C14_Witness ==
  /\ FailedOnReasoning
  /\ run.pc = "returned"
  /\ run.error = "connection lost"

\* the runner of a turn on another model failed
FailedOnOther == run.runnerStarted /\ run.error # "" /\ ~run.isO1

\* C15: when the runner fails on a model that is not reasoning-only, runChain
\* rejects with the runner's failure and adds no message.
C15_OtherFailurePropagates ==
  FailedOnOther
    => /\ run.pc = "rejected"
       /\ run.rejection = run.error
       /\ run.messages = <<>>
       /\ run.result = <<>>

C15_Witness ==
  /\ FailedOnOther
  /\ run.pc = "rejected"
  /\ chatModel.modelName = "gpt-4o"

\* C21: a second setChain(LLM_CHAIN, {}) right after the first one leaves the
\* chain, the retrieval chain, the chain type and the suspended calls as the
\* first one left them, and runs no nested setChain: the chain type did not
\* change, so its subscription was not notified.
C21_PlainSelectIsIdempotent ==
  (/\ last.op = "select"
   /\ last.again
   /\ last.chainType = LLM_CHAIN
   /\ last.options = EmptyObj)
  => /\ Selected(TheWorld) = last.before
     /\ pending = last.suspendedBefore
     /\ last.selects = 1

C21_Witness ==
  /\ last.op = "select"
  /\ last.again
  /\ last.chainType = LLM_CHAIN
  /\ last.options = EmptyObj
  /\ ~last.rejected
  /\ chain = createNewLLMChain(chatModel, getChatPrompt)
  /\ userChainType = LLM_CHAIN

\* C22: with no setChain suspended, the chain type the user's atom holds is
\* the type of a setChain that completed, so the chain of that type has been
\* built: the retrieval chain for VAULT_QA_CHAIN, the chain for the two
\* others.
C22_TypeFollowsCompletedSelect ==
  (pending = EmptyBag /\ userChainType # "")
  => IF userChainType = VAULT_QA_CHAIN
       THEN retrievalChain # NoChain
       ELSE chain # NoChain

\* the selected model key has an entry with credentials in the registry
SelectedHasCredentials ==
  LET key == getModelKey(settings, userModelKey)
  IN  key \in DOMAIN modelMap /\ modelMap[key].hasApiKey

\* C23: after a settings-change notification that leaves the selected model
\* key without credentials or without a registry entry there is no active
\* model, and a manager without an active model gets one only by a setChatModel
\* that succeeded.
C23_UncredentialedSelectionClearsModel ==
  /\ []((last.op = "settings" /\ ~SelectedHasCredentials) => chatModel = NoModel)
  /\ [][(chatModel = NoModel /\ chatModel' # NoModel)
          => (last'.op = "setChatModel" /\ last'.outcome = "ok")]_vars

\* C23 witness: a settings change took the credentials of the selected key
\* away and the model that was active is gone.
C23_Witness ==
  /\ last.op = "settings"
  /\ last.cleared
  /\ ~SelectedHasCredentials
  /\ chatModel = NoModel

\* no two rows of the list have the same (name, provider)
KeysUnique(list) ==
  \A i, j \in DOMAIN list : ModelKeyOf(list[i]) = ModelKeyOf(list[j]) => i = j

\* C24: in every snapshot written by setSettings, updateSetting or
\* resetSettings no two descriptors of activeModels, and no two of
\* activeEmbeddingModels, have the same (name, provider).
C24_ModelKeysAreUnique ==
  /\ KeysUnique(settings.activeModels)
  /\ KeysUnique(settings.activeEmbeddingModels)

\* C24 witness: a list with two rows of one key was written, and the snapshot
\* holds several chat models and several embedding models.
C24_Witness ==
  /\ last.op \in {"setSettings", "updateSetting"}
  /\ last.duplicates
  /\ Len(settings.activeModels) > 1
  /\ Len(settings.activeEmbeddingModels) > 1

\* C25: a step that is not a settings write (a model-key change with its
\* activation and chain rebuild, a chain-type change, a setChain that goes on,
\* a turn) leaves the settings snapshot as it was: the descriptors of
\* activeModels and the deployment list are the same before and after.
C25_ActivationKeepsSettings ==
  [][last'.op # "settings" => settings' = settings]_vars

\* C26: ping makes its first attempt with CORS disabled whatever the
\* descriptor's own enableCors flag is, makes a second attempt, with CORS
\* enabled, only after the first one failed, and never makes a third.
C26_FirstAttemptWithoutCors ==
  pingOut.state = "done"
  => LET attempts == pingOut.result.attempts
     IN  /\ Len(attempts) \in {1, 2}
         /\ attempts[1] = FALSE
         /\ Len(attempts) = 2 => attempts[2] = TRUE

\* C27: the activation of a reasoning-only descriptor, on whatever provider,
\* makes no ping attempt (no test model, no request) and does not fail on a
\* ping: whether the provider can be reached does not matter to it.
C27_ReasoningActivationSkipsPing ==
  (Activated /\ IsReasoning(variant, last.model))
  => /\ last.attempts = 0
     /\ last.outcome # "pingErr"

\* C27 witness: a reasoning-only descriptor that is not on Azure was activated
\* by the class that pings, without a ping.
C27_Witness ==
  /\ Activated
  /\ variant = "async"
  /\ IsReasoning(variant, last.model)
  /\ last.model.provider # AZURE_OPENAI
  /\ last.outcome = "ok"
  /\ last.attempts = 0
  /\ chatModel.key = ModelKeyOf(last.model)

\* the four Azure fields of a descriptor, each with the places that can supply
\* it: the descriptor itself, the global Azure settings, and the deployment
\* saved for the descriptor's own key
AzureFieldSources(s, model) ==
  LET own == FindFirst(s.azureOpenAIApiDeployments,
                       LAMBDA d : d.modelKey = ModelKeyOf(model))
      dep(f) == IF own = {} THEN "" ELSE (CHOOSE d \in own : TRUE)[f]
  IN  {<<Str(model, "apiKey"), s.azureOpenAIApiKey, dep("apiKey")>>,
       <<Str(model, "azureOpenAIApiInstanceName"), s.azureOpenAIApiInstanceName,
         dep("instanceName")>>,
       <<Str(model, "azureOpenAIApiDeploymentName"), s.azureOpenAIApiDeploymentName,
         dep("deploymentName")>>,
       <<Str(model, "azureOpenAIApiVersion"), s.azureOpenAIApiVersion,
         dep("apiVersion")>>}

\* one of the four fields is supplied nowhere
AzureFieldMissing(s, model) ==
  \E sources \in AzureFieldSources(s, model) : sources = <<"", "", "">>

\* C28: the activation of a reasoning-only descriptor on Azure for which the
\* api key, the instance name, the deployment name or the api version is
\* supplied nowhere throws before a provider constructor is called, and the
\* active model and the selected model key are what they were.
C28_IncompleteAzureReasoningFails ==
  (/\ Activated
   /\ last.model.provider = AZURE_OPENAI
   /\ IsReasoning(variant, last.model)
   /\ AzureFieldMissing(settings, last.model))
  => /\ last.threw
     /\ ~last.ctorCalled
     /\ last.modelKept
     /\ last.keyKept

\* C29: whatever the chain type, the chain runner of a turn executes against
\* a chain: when the chain was missing at the start of runChain, its rebuild
\* for the current chain type has completed before the runner starts.
C29_RunnerHasItsChain ==
  run.runnerStarted => run.chainUsed # NoChain

\* C30: on a settings-change notification the registry is rebuilt, and the
\* current model re-validated, before the ChainManager activates the selected
\* model and rebuilds the chain: the activation finds the registry built from
\* the snapshot that was just written.
C30_ActivationReadsFreshRegistry ==
  last.op = "settings" => ~last.stale

\* C30 witness: the OpenAI key was saved, which gave the selected gpt-4o its
\* credentials in the rebuilt registry, and the same notification activated
\* it and bound the chain to it.
C30_Witness ==
  /\ last.op = "settings"
  /\ ~last.stale
  /\ settings.openAIApiKey # ""
  /\ modelMap[ModelKeyOf(GPT)].hasApiKey
  /\ chatModel # NoModel
  /\ chatModel.key = ModelKeyOf(GPT)
  /\ chain.llm = chatModel


\* the descriptors a model key can name: those of the snapshot and the built-ins
SelectableModels(s) == Range(s.activeModels) \cup Range(BUILTIN_CHAT_MODELS)

\* C31: a deployment saved through the settings form carries the
\* (name, provider) key of a selectable model, so that the lookup
\* d.modelKey = newModelKey of createChainWithNewModel finds it when that
\* model is activated.
C31_SavedDeploymentNamesAModel ==
  (last.op = "saveDeployments" /\ last.saved) =>
    \E model \in SelectableModels(settings) :
      /\ last.added.modelKey = ModelKeyOf(model)
      /\ last.added \in FindFirst(settings.azureOpenAIApiDeployments,
                                   LAMBDA d : d.modelKey = ModelKeyOf(model))

\* C32: the selected model key names the model the active instance was
\* constructed for. An activation moves the key only together with installing
\* the instance built for that key, and an activation that fails at any step
\* leaves the key as it was.
C32_KeyFollowsInstalledInstance ==
  Activated =>
    /\ ~last.keyKept =>
         /\ chatModel # NoModel
         /\ chatModel.key = getModelKey(settings, userModelKey)
    /\ last.outcome # "ok" => last.keyKept

\* C33: whenever no chain rebuild is suspended and a model is active, the
\* chain returned by getChain is bound to that model instance: after a model
\* switch or a failed rebuild no chain holds a previously active model.
C33_ChainHoldsActiveModel ==
  (pending = EmptyBag /\ chain # NoChain /\ chatModel # NoModel) =>
    chain.llm = chatModel

\* C34: when a chain selection is requested while an earlier one is still
\* suspended in its dependency initialisation, then once both have finished
\* the chain type is the one of the selection requested last, whichever of
\* the two finished last.
C34_LastRequestedSelectionWins ==
  [][(/\ last.op = "select"
      /\ ~last.rejected
      /\ last.suspendedBefore # EmptyBag
      /\ last'.op = "resume"
      /\ pending' = EmptyBag)
     => getChainType(settings', userChainType') = last.chainType]_vars

\* C35: when a turn substitutes the prompt without system message, the
\* rebuild that installs it has completed before the runner starts, whatever
\* the chain type: the chain the runner executes against carries no system
\* message.
C35_RunnerSeesSubstitutedPrompt ==
  (run.runnerStarted /\ run.substituted /\ run.chainUsed # NoChain) =>
    ~HasSystemMessage(run.chainUsed.prompt)

C37_UnknownKeyFallsBackToBuiltIn ==
  last.op = "modelKey" =>
    LET selectedKey == getModelKey(settings, userModelKey)
    IN  /\ IndexOfKey(settings.activeModels, selectedKey) # 0
        /\ modelMap = buildModelMap(settings, modelMap)
             /\ selectedKey = ModelKeyOf(BUILTIN_CHAT_MODELS[1])
             /\ modelMap[selectedKey].hasApiKey
           => chatModel.key = selectedKey

\* C38: after any sequence of setSettings, updateSetting and resetSettings
\* calls every built-in chat model key is present in activeModels, and
\* applying setSettings with no changes twice gives the same snapshot as
\* applying it once.
C38_BuiltInsStayAndMergeIsIdempotent ==
  /\ \A i \in DOMAIN BUILTIN_CHAT_MODELS :
       IndexOfKey(settings.activeModels, ModelKeyOf(BUILTIN_CHAT_MODELS[i])) # 0
  /\ setSettings(setSettings(settings, EmptyObj), EmptyObj)
       = setSettings(settings, EmptyObj)

\* C38 witness: the list that was written held no built-in model, and the
\* snapshot has the built-in one appended as a core model.
C38_Witness ==
  /\ last.op \in {"setSettings", "updateSetting"}
  /\ Len(settings.activeModels) > 1
  /\ \E i \in DOMAIN settings.activeModels :
       /\ ModelKeyOf(settings.activeModels[i]) = ModelKeyOf(BUILTIN_CHAT_MODELS[1])
       /\ Truthy(settings.activeModels[i], "core")
       /\ i > 1

\* the positions 2j (counted from 0) whose message was sent by the user and
\* has a successor, as positions counted from 1
RestoredAt(messages) ==
  {i \in DOMAIN messages :
     i % 2 = 1 /\ i + 1 \in DOMAIN messages /\ messages[i].sender = USER_SENDER}

\* the k-th position of a set of positions, in increasing order
KthOf(positions, k) ==
  CHOOSE i \in positions : Cardinality({j \in positions : j < i}) = k - 1

\* user and assistant messages alternate, starting with the user, and every
\* user message has its answer
WellFormedHistory(messages) ==
  /\ Len(messages) % 2 = 0
  /\ \A i \in DOMAIN messages :
       messages[i].sender = (IF i % 2 = 1 THEN USER_SENDER ELSE AI_SENDER)

\* C39: updateMemoryWithLoadedMessages(messages) discards the memory there
\* was and saves, in order, exactly the pairs (messages[2j], messages[2j+1])
\* whose first message was sent by the user and whose second message exists;
\* of a well-formed alternating history every exchange is restored.
C39_LoadedMessagesRestoreExchanges ==
  last.op = "loadMessages" =>
    LET messages == last.messages
        at == RestoredAt(messages)
    IN  /\ Len(memory) = Cardinality(at)
        /\ \A k \in DOMAIN memory :
             memory[k] = <<messages[KthOf(at, k)].message,
                           messages[KthOf(at, k) + 1].message>>
        /\ WellFormedHistory(messages) => Len(memory) * 2 = Len(messages)

\* C39 witness: memory held an exchange before the call; the first pair of
\* the loaded history starts with an assistant message, the second with a
\* user message, and only the second is in memory.
C39_Witness ==
  /\ last.op = "loadMessages"
  /\ last.hadMemory
  /\ Len(last.messages) > 3
  /\ last.messages[1].sender = AI_SENDER
  /\ last.messages[3].sender = USER_SENDER
  /\ Len(memory) = 1

=============================================================================
